---------------------------- MODULE Spec2Model ----------------------------
(***************************************************************************)
(* Player combat-and-locomotion state machine of martial-magicka and the   *)
(* per-tick system pipeline that drives it (src/src/main.rs, the Update    *)
(* schedule; src/src/player/systems.rs; src/src/player/states/*.rs).       *)
(*                                                                         *)
(* Units.  Time is counted in centiseconds (0.01 s), positions in          *)
(* centi-pixels (0.01 px), velocities in px/s, so that                     *)
(* position += velocity * dt is exact on integers.  Knockback velocities,  *)
(* which decay by a factor every tick, are counted in 0.001 px/s.          *)
(*                                                                         *)
(* One tick of the Update schedule is the sequence of the systems in the   *)
(* order given in main(); every system is one action, selected by pc.      *)
(* Commands (insert / remove / despawn / spawn) are deferred: a system     *)
(* appends them to `commands` and they take effect at the next             *)
(* synchronisation point, which the scheduler places after every system    *)
(* that owns a Commands parameter and has a successor in its chain.  The   *)
(* two chained groups of main() share these synchronisation points, so     *)
(* update_invulnerability (first of the second group) runs before the      *)
(* first one, which follows handle_damage_events.                          *)
(***************************************************************************)
EXTENDS Integers, Sequences, FiniteSets, TLC

VARIABLES
    pc,            \* the system of the Update schedule that runs next
    tick,          \* ticks completed since the initial state
    presses,       \* ticks on which a key was down (environment bound)
    input,         \* keyboard snapshot of the tick (ButtonInput<KeyCode>)
    state,         \* PlayerState variant of the player
    changed,       \* Changed<PlayerState> as seen by each filtered system
    anim,          \* Sprite atlas index, AnimationIndices, AnimationTimer
    combo_window,  \* ComboWindow
    jump_physics,  \* JumpPhysics
    transform,     \* player Transform.translation (x, y) and Direction
    hitbox,        \* player Hitbox
    hit_tracking,  \* HitTracking.hit_enemies
    health,        \* player Health.current
    effects,       \* player Invulnerable / Knockback / HitFlash
    enemies,       \* enemy slot -> enemy entity (or none)
    game_state,    \* GameState resource and the game-over screen
    messages,      \* DamageEvent / EnemyDefeatedEvent / PlayerDefeatedEvent
    commands,      \* deferred commands awaiting a synchronisation point
    hist           \* history of the current tick / swing / jump (observers)

vars == << pc, tick, presses, input, state, changed, anim, combo_window,
           jump_physics, transform, hitbox, hit_tracking, health, effects,
           enemies, game_state, messages, commands, hist >>

---------------------------------------------------------------------------
(* Bounds of the model *)

\* ticks explored from the initial state
MaxTicks == 14

\* ticks on which the environment may hold a key down
MaxPresses == 2

\* entities an enemy slot may hold in turn (a despawned slot is reused)
MaxGen == 2

\* frame time of every tick, in cs (the value of Time::delta)
Dt == 4

---------------------------------------------------------------------------
(* Program constants *)

MAX_ENEMIES == 6

GRAVITY == 1800

AIR_CONTROL_SPEED == 250

JUMP_FORCE == 1000

COMBO_DURATION == 50

STUN_DURATION == 50

INVULNERABLE_DURATION == 100

FLASH_DURATION == 30

GAME_DURATION == 12000

SPAWN_INTERVAL == 200

PLAYER_MAX_HEALTH == 20

ENEMY_MAX_HEALTH == 6

CONTACT_DAMAGE == 1

CONTACT_DISTANCE == 10000

ENEMY_KNOCKBACK == 300

PLAYER_KNOCKBACK == 500

KNOCKBACK_EPSILON == 10

ENEMY_SPEED_X == 150

ENEMY_SPEED_Y == 50

CHASE_HYSTERESIS == 15000

CHASE_Y_THRESHOLD == 1000

GROUND_TOLERANCE == 100

SPAWN_X == 160000

SPAWN_Y == 0

PLAYER_SPAWN_X == -20000

PLAYER_SPAWN_Y == -20000

INITIAL_GROUND_Y == -10000

PLAYER_Z == 100

ENEMY_Z == 200

ENEMY_HURT_W == 8000

ENEMY_HURT_H == 10000

HITBOX_OFFSET == 8000

INITIAL_ANIM_LAST == 23

INITIAL_ANIM_DURATION == 10

None == "None"

PlayerStateType ==
    { "Idle", "IdleToWalk", "IdleToRun", "Walk", "Run", "Jump", "Fall", "Land",
      "Punch", "PunchCombo", "Kick", "KickCombo", "PunchKickCombo",
      "JumpPunch", "JumpKick", "Defeat" }

Abs(a) == IF a < 0 THEN -a ELSE a

Sgn(a) == IF a < 0 THEN -1 ELSE IF a > 0 THEN 1 ELSE 0

\* f32 division of a by b > 0, rounded toward zero
DivT(a, b) == Sgn(a) * (Abs(a) \div b)

---------------------------------------------------------------------------
(* State Behavior Table: src/src/player/states/*.rs *)

TransNone == [kind |-> "None", to |-> None]

To(s) == [kind |-> "To", to |-> s]

QueueCombo(s) == [kind |-> "QueueCombo", to |-> s]

Idle_handle_input(in) ==
    IF in.up_arrow THEN To("Punch")
    ELSE IF in.down_arrow THEN To("Kick")
    ELSE IF in.space THEN To("Jump")
    ELSE IF in.left \/ in.right
         THEN (IF in.shift THEN To("IdleToWalk") ELSE To("IdleToRun"))
    ELSE TransNone

IdleToWalk_handle_input(in) ==
    IF in.up_arrow THEN To("Punch")
    ELSE IF in.down_arrow THEN To("Kick")
    ELSE IF in.space THEN To("Jump")
    ELSE IF ~in.left /\ ~in.right THEN To("Idle")
    ELSE TransNone

IdleToRun_handle_input(in) ==
    IF in.up_arrow THEN To("Punch")
    ELSE IF in.down_arrow THEN To("Kick")
    ELSE IF in.space THEN To("Jump")
    ELSE IF ~in.left /\ ~in.right THEN To("Idle")
    ELSE TransNone

\* Walk with the jump looked at before the attacks
Walk_handle_input_jump_first(in) ==
    IF in.space THEN To("Jump")
    ELSE IF in.up_arrow THEN To("Punch")
    ELSE IF in.down_arrow THEN To("Kick")
    ELSE IF ~in.left /\ ~in.right THEN To("Idle")
    ELSE TransNone

Walk_handle_input(in) ==
    IF in.up_arrow THEN To("Punch")
    ELSE IF in.down_arrow THEN To("Kick")
    ELSE IF in.space THEN To("Jump")
    ELSE IF ~in.left /\ ~in.right THEN To("Idle")
    ELSE TransNone

Run_handle_input(in) ==
    IF in.up_arrow THEN To("Punch")
    ELSE IF in.down_arrow THEN To("Kick")
    ELSE IF in.space THEN To("Jump")
    ELSE IF ~in.left /\ ~in.right THEN To("Idle")
    ELSE TransNone

\* a Jump that Space starts again in mid-air
Jump_handle_input_double(in) ==
    IF in.space THEN To("Jump")
    ELSE IF ~in.has_used_aerial_attack /\ in.up_arrow THEN To("JumpPunch")
    ELSE IF ~in.has_used_aerial_attack /\ in.down_arrow THEN To("JumpKick")
    ELSE TransNone

Jump_handle_input(in) ==
    IF ~in.has_used_aerial_attack /\ in.up_arrow THEN To("JumpPunch")
    ELSE IF ~in.has_used_aerial_attack /\ in.down_arrow THEN To("JumpKick")
    ELSE TransNone

\* the aerial-attack guard not consulted
Fall_handle_input_unguarded(in) ==
    IF in.up_arrow THEN To("JumpPunch")
    ELSE IF in.down_arrow THEN To("JumpKick")
    ELSE TransNone

Fall_handle_input(in) ==
    IF ~in.has_used_aerial_attack /\ in.up_arrow THEN To("JumpPunch")
    ELSE IF ~in.has_used_aerial_attack /\ in.down_arrow THEN To("JumpKick")
    ELSE TransNone

\* a Punch that queues its combo in the first half of the animation as well
Punch_handle_input_anytime(in) ==
    IF in.up_arrow THEN QueueCombo("PunchCombo") ELSE TransNone

Punch_handle_input(in) ==
    IF in.up_arrow /\ in.current_frame >= in.total_frames \div 2
    THEN QueueCombo("PunchCombo")
    ELSE TransNone

\* a PunchCombo that ArrowUp chains into another PunchCombo
PunchCombo_handle_input_repeat(in) ==
    IF in.current_frame >= in.total_frames \div 2 /\ (in.up_arrow \/ in.down_arrow)
    THEN QueueCombo(IF in.up_arrow THEN "PunchCombo" ELSE "PunchKickCombo")
    ELSE TransNone

PunchCombo_handle_input(in) ==
    IF in.down_arrow /\ in.current_frame >= in.total_frames \div 2
    THEN QueueCombo("PunchKickCombo")
    ELSE TransNone

\* a Kick that a second ArrowDown cuts short
Kick_handle_input_cancel(in) ==
    IF in.down_arrow THEN To("KickCombo") ELSE TransNone

Kick_handle_input(in) ==
    IF in.down_arrow /\ in.current_frame >= in.total_frames \div 2
    THEN QueueCombo("KickCombo")
    ELSE TransNone

\* PlayerState::handle_input: dispatch on the variant
handle_input(s, in) ==
    CASE s = "Idle" -> Idle_handle_input(in)
      [] s = "IdleToWalk" -> IdleToWalk_handle_input(in)
      [] s = "IdleToRun" -> IdleToRun_handle_input(in)
      [] s = "Walk" -> Walk_handle_input(in)
      [] s = "Run" -> Run_handle_input(in)
      [] s = "Jump" -> Jump_handle_input(in)
      [] s = "Fall" -> Fall_handle_input(in)
      [] s = "Punch" -> Punch_handle_input(in)
      [] s = "PunchCombo" -> PunchCombo_handle_input(in)
      [] s = "Kick" -> Kick_handle_input(in)
      [] OTHER -> TransNone

\* the states that end in Idle made to end in Walk
AnimationEnd_update_to_walk(ctx, next) ==
    IF ctx.animation_finished
    THEN To(IF next = "Idle" THEN "Walk" ELSE next)
    ELSE TransNone

\* update() of the states that leave for a fixed state when the animation ends
AnimationEnd_update(ctx, next) ==
    IF ctx.animation_finished THEN To(next) ELSE TransNone

Jump_update(ctx) ==
    IF ctx.velocity_y <= 0 THEN To("Fall") ELSE TransNone

\* a Fall that ends standing, with no landing
Fall_update_to_idle(ctx) ==
    IF ctx.is_at_ground THEN To("Idle") ELSE TransNone

Fall_update(ctx) ==
    IF ctx.is_at_ground THEN To("Land") ELSE TransNone

\* an aerial attack that ends as the ground attacks do
Aerial_update_to_idle(ctx) == AnimationEnd_update(ctx, "Idle")

Aerial_update(ctx) ==
    IF ctx.animation_finished
    THEN (IF ~ctx.is_at_ground THEN To("Fall") ELSE To("Land"))
    ELSE TransNone

\* a Defeat that ended with its animation, as Land and the ground attacks do
Defeat_update_ends(ctx) == AnimationEnd_update(ctx, "Idle")

\* DefeatStateData::update: "Defeat is a terminal state - no transitions"
Defeat_update(ctx) == TransNone

\* PlayerState::update: dispatch on the variant
update(s, ctx) ==
    CASE s = "IdleToWalk" -> AnimationEnd_update(ctx, "Walk")
      [] s = "IdleToRun" -> AnimationEnd_update(ctx, "Run")
      [] s = "Jump" -> Jump_update(ctx)
      [] s = "Fall" -> Fall_update(ctx)
      [] s = "Land" -> AnimationEnd_update(ctx, "Idle")
      [] s = "Punch" -> AnimationEnd_update(ctx, "Idle")
      [] s = "PunchCombo" -> AnimationEnd_update(ctx, "Idle")
      [] s = "Kick" -> AnimationEnd_update(ctx, "Idle")
      [] s = "KickCombo" -> AnimationEnd_update(ctx, "Idle")
      [] s = "PunchKickCombo" -> AnimationEnd_update(ctx, "Idle")
      [] s = "JumpPunch" -> Aerial_update(ctx)
      [] s = "JumpKick" -> Aerial_update(ctx)
      [] s = "Defeat" -> Defeat_update(ctx)
      [] OTHER -> TransNone

is_attacking(s) ==
    s \in { "Punch", "PunchCombo", "Kick", "KickCombo", "PunchKickCombo",
            "JumpPunch", "JumpKick" }

\* Punch given the damage of Kick
get_damage_punch_as_kick(s) ==
    CASE s \in { "Punch", "Kick", "KickCombo", "PunchKickCombo" } -> 3
      [] s = "PunchCombo" -> 2
      [] s \in { "JumpPunch", "JumpKick" } -> 6
      [] OTHER -> 0

get_damage(s) ==
    CASE s \in { "Punch", "PunchCombo" } -> 2
      [] s \in { "Kick", "KickCombo", "PunchKickCombo" } -> 3
      [] s \in { "JumpPunch", "JumpKick" } -> 6
      [] OTHER -> 0

\* movement locked by the ground attacks only, Land and Defeat left free
locks_movement_attacks_only(s) ==
    s \in { "Punch", "PunchCombo", "Kick", "KickCombo", "PunchKickCombo" }

\* get_physics_config().locks_movement
locks_movement(s) ==
    s \in { "Land", "Punch", "PunchCombo", "Kick", "KickCombo",
            "PunchKickCombo", "Defeat" }

locks_input(s) == locks_movement(s)

\* get_physics_config().apply_gravity
apply_gravity(s) == s \in { "Jump", "Fall" }

\* get_physics_config().air_control
air_control(s) == s \in { "Jump", "Fall", "JumpPunch", "JumpKick" }

\* get_physics_config().ground_speed, px/s
ground_speed(s) ==
    CASE s = "IdleToWalk" -> 200
      [] s = "IdleToRun" -> 400
      [] s = "Walk" -> 200
      [] s = "Run" -> 600
      [] OTHER -> 0

\* get_animation_config().first_frame
first_frame(s) == 1

\* get_animation_config().last_frame
last_frame(s) ==
    CASE s = "Idle" -> 23
      [] s = "IdleToWalk" -> 6
      [] s = "IdleToRun" -> 7
      [] s = "Walk" -> 11
      [] s = "Run" -> 7
      [] s = "Jump" -> 26
      [] s = "Fall" -> 19
      [] s = "Land" -> 20
      [] s = "Punch" -> 12
      [] s = "PunchCombo" -> 7
      [] s = "Kick" -> 20
      [] s = "KickCombo" -> 19
      [] s = "PunchKickCombo" -> 16
      [] s = "JumpPunch" -> 17
      [] s = "JumpKick" -> 19
      [] s = "Defeat" -> 20

\* get_animation_config().frame_duration, cs
frame_duration(s) ==
    CASE s = "Idle" -> 12
      [] s = "IdleToWalk" -> 6
      [] s = "IdleToRun" -> 6
      [] s = "Walk" -> 9
      [] s = "Run" -> 7
      [] s = "Jump" -> 5
      [] s = "Fall" -> 10
      [] s = "Land" -> 2
      [] s = "Punch" -> 3
      [] s = "PunchCombo" -> 5
      [] s = "Kick" -> 2
      [] s = "KickCombo" -> 2
      [] s = "PunchKickCombo" -> 3
      [] s = "JumpPunch" -> 2
      [] s = "JumpKick" -> 2
      [] s = "Defeat" -> 10


---------------------------------------------------------------------------
(* bevy Timer *)

\* a timer that is never advanced
TickOnce_stopped(elapsed, duration, dt) == elapsed

\* Timer::tick of a TimerMode::Once timer: the elapsed time after the call
\* (clamped to the duration; a finished timer no longer advances)
TickOnce(elapsed, duration, dt) ==
    IF elapsed >= duration THEN elapsed
    ELSE IF elapsed + dt >= duration THEN duration
    ELSE elapsed + dt

\* Timer::is_finished of a TimerMode::Once timer
IsFinished(elapsed, duration) == elapsed >= duration

\* Timer::tick of the TimerMode::Repeating animation timer
TickRepeating(a, dt) ==
    IF a.elapsed + dt >= a.duration
    THEN [a EXCEPT !.elapsed = (a.elapsed + dt) % a.duration,
                   !.just_finished = TRUE]
    ELSE [a EXCEPT !.elapsed = a.elapsed + dt, !.just_finished = FALSE]

---------------------------------------------------------------------------
(* Entities *)

\* enemy slots: spawn_enemy keeps at most MAX_ENEMIES alive
Slots == 1 .. MAX_ENEMIES

PlayerId == << 0, 0 >>

EntityId(slot) == << slot, enemies[slot].gen >>

\* an enemy slot that holds no entity; gen counts the entities it has held
NoEnemy(gen) ==
    [alive |-> FALSE, gen |-> gen, x |-> 0, y |-> 0, direction |-> None,
     health |-> 0, stunned |-> FALSE, stun_elapsed |-> 0,
     knockback |-> FALSE, kbx |-> 0, kby |-> 0,
     hit_flash |-> FALSE, flash_elapsed |-> 0]

\* the bundle spawn_enemy spawns
NewEnemy(gen, x, dir) ==
    [alive |-> TRUE, gen |-> gen, x |-> x, y |-> SPAWN_Y, direction |-> dir,
     health |-> ENEMY_MAX_HEALTH, stunned |-> FALSE, stun_elapsed |-> 0,
     knockback |-> FALSE, kbx |-> 0, kby |-> 0,
     hit_flash |-> FALSE, flash_elapsed |-> 0]

Alive == { s \in Slots : enemies[s].alive }

\* the slot of a live entity, 0 if the entity does not exist
SlotOf(en, id) ==
    IF id[1] \in Slots /\ en[id[1]].alive /\ en[id[1]].gen = id[2]
    THEN id[1] ELSE 0

NoInput ==
    [left |-> FALSE, right |-> FALSE, shift |-> FALSE, space |-> FALSE,
     up_arrow |-> FALSE, down_arrow |-> FALSE, restart |-> FALSE]

\* one key at a time, or Shift together with a movement key
Inputs ==
    { NoInput,
      [NoInput EXCEPT !.left = TRUE],
      [NoInput EXCEPT !.right = TRUE],
      [NoInput EXCEPT !.left = TRUE, !.shift = TRUE],
      [NoInput EXCEPT !.right = TRUE, !.shift = TRUE],
      [NoInput EXCEPT !.space = TRUE],
      [NoInput EXCEPT !.up_arrow = TRUE],
      [NoInput EXCEPT !.down_arrow = TRUE],
      [NoInput EXCEPT !.restart = TRUE] }

NoMessages == [damage |-> << >>, enemy_defeated |-> << >>, player_defeated |-> 0]

\* observers: what has happened in the current tick, swing and jump
NoHist ==
    [aerial |-> 0,            \* entries into JumpPunch / JumpKick since Jump
     swing |-> << >>,         \* targets of the player's DamageEvents, this swing
     health0 |-> PLAYER_MAX_HEALTH,  \* player health when the tick began
     queued |-> FALSE,        \* the input phase of this tick queued a combo
     jumped |-> FALSE,        \* the input phase of this tick entered Jump
     lethal |-> FALSE,        \* a DamageEvent of this tick left the player <= 0
     attached |-> {},         \* entities that got hit effects in this tick
     inv_contact |-> FALSE,   \* player was Invulnerable at contact detection
     contacts |-> 0,          \* contact DamageEvents raised in this tick
     skipped |-> 0,           \* DamageEvents of this tick with no target left
     kb |-> [k \in 0 .. MAX_ENEMIES |-> [n |-> 0, vx |-> 0, vy |-> 0]],
                              \* per actor (0 the player, s the enemy of slot
                              \* s): the velocity its Knockback was attached
                              \* with and the decay ticks it has had since
     punched |-> [s \in Slots |-> -1],
                              \* per enemy: frame time (cs) counted since its
                              \* first hit, if a Punch dealt it; -1 otherwise
     chain |-> << >>,         \* the ground attacks entered one after the other
                              \* since the last state that is no ground attack
     since_jump |-> "None",   \* the last of: entry into Jump ("Jump"), entry
                              \* into Land ("Land"), restart ("Reset")
     defeated |-> << >>]      \* the enemies of the EnemyDefeatedEvents raised

---------------------------------------------------------------------------
(* setup: the state after Startup *)

setup ==
    /\ pc = "tick"
    /\ tick = 0
    /\ presses = 0
    /\ input = NoInput
    /\ state = "Idle"
    /\ changed = [init |-> TRUE, hit |-> TRUE, sprite |-> TRUE]
    /\ anim = [index |-> 1, first |-> 1, last |-> INITIAL_ANIM_LAST,
               duration |-> INITIAL_ANIM_DURATION, elapsed |-> 0,
               just_finished |-> FALSE]
    /\ combo_window = [elapsed |-> 0, last_attack |-> None, queued_combo |-> None]
    /\ jump_physics = [velocity_y |-> 0, ground_y |-> INITIAL_GROUND_Y,
                       jump_force |-> JUMP_FORCE,
                       has_used_aerial_attack |-> FALSE]
    /\ transform = [x |-> PLAYER_SPAWN_X, y |-> PLAYER_SPAWN_Y, direction |-> None]
    /\ hitbox = [active |-> FALSE, offset |-> 0, w |-> 0, h |-> 0]
    /\ hit_tracking = {}
    /\ health = PLAYER_MAX_HEALTH
    /\ effects = [invulnerable |-> FALSE, inv_elapsed |-> 0,
                  knockback |-> FALSE, kbx |-> 0, kby |-> 0,
                  hit_flash |-> FALSE, flash_elapsed |-> 0]
    /\ enemies = [s \in Slots |-> NoEnemy(0)]
    /\ game_state = [score |-> 0, n_enemies |-> 0, timer |-> 0,
                     last_spawn_time |-> 0, game_over |-> FALSE,
                     screen |-> FALSE]
    /\ messages = NoMessages
    /\ commands = << >>
    /\ hist = NoHist

---------------------------------------------------------------------------
(* States of games in progress.  Each record below is the state at the    *)
(* start of the named tick of the game played from setup with the keys    *)
(* listed (frame time Dt throughout), as computed by the actions of this  *)
(* module; exploration starts from setup and from each of them.  The      *)
(* field tick is the number of ticks, of the MaxTicks explored, counted   *)
(* as spent when the exploration starts there.                            *)

\* BEGIN snapshots
\* A pressed on tick 100; every enemy spawned on the left; tick 254: the first enemy
\* is about to come within reach of a punch to the left
Approach ==
    [tick |-> 0, state |-> "Idle", changed |-> [init |-> FALSE, hit |->
     FALSE, sprite |-> FALSE], anim |-> [elapsed |-> 0, duration |-> 12,
     just_finished |-> TRUE, index |-> 6, first |-> 1, last |-> 23],
     combo_window |-> [elapsed |-> 50, last_attack |-> "None",
     queued_combo |-> "None"], jump_physics |-> [has_used_aerial_attack
     |-> FALSE, velocity_y |-> 0, ground_y |-> -10000, jump_force |->
     1000], transform |-> [x |-> -21600, y |-> -10000, direction |->
     "Left"], hitbox |-> [active |-> FALSE, offset |-> 0, w |-> 0, h |->
     0], hit_tracking |-> {}, health |-> 20, effects |-> [knockback |->
     FALSE, kbx |-> 0, kby |-> 0, hit_flash |-> FALSE, flash_elapsed |->
     0, invulnerable |-> FALSE, inv_elapsed |-> 0], enemies |-> <<[health
     |-> 6, gen |-> 1, alive |-> TRUE, x |-> -37600, y |-> -9000,
     direction |-> "Right", stunned |-> FALSE, stun_elapsed |-> 0,
     knockback |-> FALSE, kbx |-> 0, kby |-> 0, hit_flash |-> FALSE,
     flash_elapsed |-> 0], [health |-> 6, gen |-> 1, alive |-> TRUE, x |->
     -67600, y |-> -9000, direction |-> "Right", stunned |-> FALSE,
     stun_elapsed |-> 0, knockback |-> FALSE, kbx |-> 0, kby |-> 0,
     hit_flash |-> FALSE, flash_elapsed |-> 0], [health |-> 6, gen |-> 1,
     alive |-> TRUE, x |-> -97600, y |-> -9000, direction |-> "Right",
     stunned |-> FALSE, stun_elapsed |-> 0, knockback |-> FALSE, kbx |->
     0, kby |-> 0, hit_flash |-> FALSE, flash_elapsed |-> 0], [health |->
     6, gen |-> 1, alive |-> TRUE, x |-> -127600, y |-> -9000, direction
     |-> "Right", stunned |-> FALSE, stun_elapsed |-> 0, knockback |->
     FALSE, kbx |-> 0, kby |-> 0, hit_flash |-> FALSE, flash_elapsed |->
     0], [health |-> 6, gen |-> 1, alive |-> TRUE, x |-> -157600, y |->
     -800, direction |-> "Right", stunned |-> FALSE, stun_elapsed |-> 0,
     knockback |-> FALSE, kbx |-> 0, kby |-> 0, hit_flash |-> FALSE,
     flash_elapsed |-> 0], [health |-> 0, gen |-> 0, alive |-> FALSE, x
     |-> 0, y |-> 0, direction |-> "None", stunned |-> FALSE, stun_elapsed
     |-> 0, knockback |-> FALSE, kbx |-> 0, kby |-> 0, hit_flash |->
     FALSE, flash_elapsed |-> 0]>>, game_state |-> [score |-> 0, n_enemies
     |-> 5, timer |-> 1016, last_spawn_time |-> 1000, game_over |-> FALSE,
     screen |-> FALSE], messages |-> [damage |-> <<>>, enemy_defeated |->
     <<>>, player_defeated |-> 0], commands |-> <<>>, hist |-> [aerial |->
     0, swing |-> <<>>, health0 |-> 20, queued |-> FALSE, jumped |->
     FALSE, lethal |-> FALSE, attached |-> {}, inv_contact |-> FALSE,
     contacts |-> 0, skipped |-> 0, kb |-> (0 :> [n |-> 0, vx |-> 0, vy
     |-> 0] @@ 1 :> [n |-> 0, vx |-> 0, vy |-> 0] @@ 2 :> [n |-> 0, vx |->
     0, vy |-> 0] @@ 3 :> [n |-> 0, vx |-> 0, vy |-> 0] @@ 4 :> [n |-> 0,
     vx |-> 0, vy |-> 0] @@ 5 :> [n |-> 0, vx |-> 0, vy |-> 0] @@ 6 :> [n
     |-> 0, vx |-> 0, vy |-> 0]), punched |-> <<-1, -1, -1, -1, -1, -1>>,
     chain |-> <<>>, since_jump |-> "None", defeated |-> <<>>]]

\* as Approach, then two punches (ArrowUp on ticks 254 and 284) that hit the first
\* enemy, and a jump (Space on tick 297) over the second; tick 340: landed, the
\* first enemy (health 2) and the second both a step from the reach of one punch
Cluster ==
    [tick |-> 0, state |-> "Land", changed |-> [init |-> FALSE, hit |->
     FALSE, sprite |-> FALSE], anim |-> [elapsed |-> 0, duration |-> 2,
     just_finished |-> TRUE, index |-> 14, first |-> 1, last |-> 20],
     combo_window |-> [elapsed |-> 50, last_attack |-> "Punch",
     queued_combo |-> "None"], jump_physics |-> [has_used_aerial_attack
     |-> FALSE, velocity_y |-> 0, ground_y |-> -10000, jump_force |->
     1000], transform |-> [x |-> -9646, y |-> -10000, direction |->
     "Left"], hitbox |-> [active |-> FALSE, offset |-> -8000, w |-> 6000,
     h |-> 4000], hit_tracking |-> {<<1, 1>>}, health |-> 19, effects |->
     [knockback |-> TRUE, kbx |-> 41399, kby |-> 44502, hit_flash |->
     FALSE, flash_elapsed |-> 0, invulnerable |-> TRUE, inv_elapsed |->
     76], enemies |-> <<[health |-> 2, gen |-> 1, alive |-> TRUE, x |->
     -23431, y |-> -6646, direction |-> "Right", stunned |-> FALSE,
     stun_elapsed |-> 0, knockback |-> FALSE, kbx |-> 0, kby |-> 0,
     hit_flash |-> FALSE, flash_elapsed |-> 0], [health |-> 6, gen |-> 1,
     alive |-> TRUE, x |-> -16000, y |-> -7000, direction |-> "Right",
     stunned |-> FALSE, stun_elapsed |-> 0, knockback |-> FALSE, kbx |->
     0, kby |-> 0, hit_flash |-> FALSE, flash_elapsed |-> 0], [health |->
     6, gen |-> 1, alive |-> TRUE, x |-> -46000, y |-> -7000, direction
     |-> "Right", stunned |-> FALSE, stun_elapsed |-> 0, knockback |->
     FALSE, kbx |-> 0, kby |-> 0, hit_flash |-> FALSE, flash_elapsed |->
     0], [health |-> 6, gen |-> 1, alive |-> TRUE, x |-> -76000, y |->
     -7000, direction |-> "Right", stunned |-> FALSE, stun_elapsed |-> 0,
     knockback |-> FALSE, kbx |-> 0, kby |-> 0, hit_flash |-> FALSE,
     flash_elapsed |-> 0], [health |-> 6, gen |-> 1, alive |-> TRUE, x |->
     -106000, y |-> -7000, direction |-> "Right", stunned |-> FALSE,
     stun_elapsed |-> 0, knockback |-> FALSE, kbx |-> 0, kby |-> 0,
     hit_flash |-> FALSE, flash_elapsed |-> 0], [health |-> 6, gen |-> 1,
     alive |-> TRUE, x |-> -136000, y |-> 0, direction |-> "Right",
     stunned |-> FALSE, stun_elapsed |-> 0, knockback |-> FALSE, kbx |->
     0, kby |-> 0, hit_flash |-> FALSE, flash_elapsed |-> 0]>>, game_state
     |-> [score |-> 0, n_enemies |-> 6, timer |-> 1360, last_spawn_time
     |-> 1200, game_over |-> FALSE, screen |-> FALSE], messages |->
     [damage |-> <<>>, enemy_defeated |-> <<>>, player_defeated |-> 0],
     commands |-> <<>>, hist |-> [aerial |-> 0, swing |-> <<>>, health0
     |-> 19, queued |-> FALSE, jumped |-> FALSE, lethal |-> FALSE,
     attached |-> {}, inv_contact |-> TRUE, contacts |-> 0, skipped |-> 0,
     kb |-> (0 :> [n |-> 20, vx |-> 340534, vy |-> 366074] @@ 1 :> [n |->
     33, vx |-> -299334, vy |-> 20020] @@ 2 :> [n |-> 0, vx |-> 0, vy |->
     0] @@ 3 :> [n |-> 0, vx |-> 0, vy |-> 0] @@ 4 :> [n |-> 0, vx |-> 0,
     vy |-> 0] @@ 5 :> [n |-> 0, vx |-> 0, vy |-> 0] @@ 6 :> [n |-> 0, vx
     |-> 0, vy |-> 0]), punched |-> <<328, -1, -1, -1, -1, -1>>, chain |->
     <<>>, since_jump |-> "Land", defeated |-> <<>>]]

\* A pressed on tick 100, enemies spawned left and right in turn, no other key;
\* tick 768: health 1, Invulnerable about to expire, six enemies closing in
LastStand ==
    [tick |-> 0, state |-> "Idle", changed |-> [init |-> FALSE, hit |->
     FALSE, sprite |-> FALSE], anim |-> [elapsed |-> 4, duration |-> 12,
     just_finished |-> FALSE, index |-> 16, first |-> 1, last |-> 23],
     combo_window |-> [elapsed |-> 50, last_attack |-> "None",
     queued_combo |-> "None"], jump_physics |-> [has_used_aerial_attack
     |-> FALSE, velocity_y |-> 0, ground_y |-> -10000, jump_force |->
     1000], transform |-> [x |-> -134786, y |-> -10000, direction |->
     "Left"], hitbox |-> [active |-> FALSE, offset |-> 0, w |-> 0, h |->
     0], hit_tracking |-> {}, health |-> 1, effects |-> [knockback |->
     TRUE, kbx |-> -44073, kby |-> -4555, hit_flash |-> FALSE,
     flash_elapsed |-> 0, invulnerable |-> TRUE, inv_elapsed |-> 88],
     enemies |-> <<[health |-> 6, gen |-> 1, alive |-> TRUE, x |->
     -116800, y |-> -9000, direction |-> "Left", stunned |-> FALSE,
     stun_elapsed |-> 0, knockback |-> FALSE, kbx |-> 0, kby |-> 0,
     hit_flash |-> FALSE, flash_elapsed |-> 0], [health |-> 6, gen |-> 1,
     alive |-> TRUE, x |-> -117200, y |-> -9000, direction |-> "Left",
     stunned |-> FALSE, stun_elapsed |-> 0, knockback |-> FALSE, kbx |->
     0, kby |-> 0, hit_flash |-> FALSE, flash_elapsed |-> 0], [health |->
     6, gen |-> 1, alive |-> TRUE, x |-> -116800, y |-> -9000, direction
     |-> "Left", stunned |-> FALSE, stun_elapsed |-> 0, knockback |->
     FALSE, kbx |-> 0, kby |-> 0, hit_flash |-> FALSE, flash_elapsed |->
     0], [health |-> 6, gen |-> 1, alive |-> TRUE, x |-> -116000, y |->
     -9000, direction |-> "Left", stunned |-> FALSE, stun_elapsed |-> 0,
     knockback |-> FALSE, kbx |-> 0, kby |-> 0, hit_flash |-> FALSE,
     flash_elapsed |-> 0], [health |-> 6, gen |-> 1, alive |-> TRUE, x |->
     -119200, y |-> -9000, direction |-> "Left", stunned |-> FALSE,
     stun_elapsed |-> 0, knockback |-> FALSE, kbx |-> 0, kby |-> 0,
     hit_flash |-> FALSE, flash_elapsed |-> 0], [health |-> 6, gen |-> 1,
     alive |-> TRUE, x |-> -120800, y |-> -9000, direction |-> "Left",
     stunned |-> FALSE, stun_elapsed |-> 0, knockback |-> FALSE, kbx |->
     0, kby |-> 0, hit_flash |-> FALSE, flash_elapsed |-> 0]>>, game_state
     |-> [score |-> 0, n_enemies |-> 6, timer |-> 3072, last_spawn_time
     |-> 1200, game_over |-> FALSE, screen |-> FALSE], messages |->
     [damage |-> <<>>, enemy_defeated |-> <<>>, player_defeated |-> 0],
     commands |-> <<>>, hist |-> [aerial |-> 0, swing |-> <<>>, health0
     |-> 1, queued |-> FALSE, jumped |-> FALSE, lethal |-> FALSE, attached
     |-> {}, inv_contact |-> TRUE, contacts |-> 0, skipped |-> 0, kb |->
     (0 :> [n |-> 23, vx |-> -497325, vy |-> -51440] @@ 1 :> [n |-> 0, vx
     |-> 0, vy |-> 0] @@ 2 :> [n |-> 0, vx |-> 0, vy |-> 0] @@ 3 :> [n |->
     0, vx |-> 0, vy |-> 0] @@ 4 :> [n |-> 0, vx |-> 0, vy |-> 0] @@ 5 :>
     [n |-> 0, vx |-> 0, vy |-> 0] @@ 6 :> [n |-> 0, vx |-> 0, vy |-> 0]),
     punched |-> <<-1, -1, -1, -1, -1, -1>>, chain |-> <<>>, since_jump
     |-> "None", defeated |-> <<>>]]

\* Space on tick 0, ArrowUp on tick 1; tick 12: in the air, JumpPunch under way
Airborne ==
    [tick |-> 0, state |-> "JumpPunch", changed |-> [init |-> FALSE, hit
     |-> FALSE, sprite |-> FALSE], anim |-> [elapsed |-> 0, duration |->
     2, just_finished |-> TRUE, index |-> 12, first |-> 1, last |-> 17],
     combo_window |-> [elapsed |-> 40, last_attack |-> "JumpPunch",
     queued_combo |-> "None"], jump_physics |-> [has_used_aerial_attack
     |-> TRUE, velocity_y |-> 928, ground_y |-> -20000, jump_force |->
     1000], transform |-> [x |-> -20000, y |-> -16288, direction |->
     "None"], hitbox |-> [active |-> TRUE, offset |-> 0, w |-> 5000, h |->
     5000], hit_tracking |-> {}, health |-> 20, effects |-> [knockback |->
     FALSE, kbx |-> 0, kby |-> 0, hit_flash |-> FALSE, flash_elapsed |->
     0, invulnerable |-> FALSE, inv_elapsed |-> 0], enemies |-> <<[health
     |-> 0, gen |-> 0, alive |-> FALSE, x |-> 0, y |-> 0, direction |->
     "None", stunned |-> FALSE, stun_elapsed |-> 0, knockback |-> FALSE,
     kbx |-> 0, kby |-> 0, hit_flash |-> FALSE, flash_elapsed |-> 0],
     [health |-> 0, gen |-> 0, alive |-> FALSE, x |-> 0, y |-> 0,
     direction |-> "None", stunned |-> FALSE, stun_elapsed |-> 0,
     knockback |-> FALSE, kbx |-> 0, kby |-> 0, hit_flash |-> FALSE,
     flash_elapsed |-> 0], [health |-> 0, gen |-> 0, alive |-> FALSE, x
     |-> 0, y |-> 0, direction |-> "None", stunned |-> FALSE, stun_elapsed
     |-> 0, knockback |-> FALSE, kbx |-> 0, kby |-> 0, hit_flash |->
     FALSE, flash_elapsed |-> 0], [health |-> 0, gen |-> 0, alive |->
     FALSE, x |-> 0, y |-> 0, direction |-> "None", stunned |-> FALSE,
     stun_elapsed |-> 0, knockback |-> FALSE, kbx |-> 0, kby |-> 0,
     hit_flash |-> FALSE, flash_elapsed |-> 0], [health |-> 0, gen |-> 0,
     alive |-> FALSE, x |-> 0, y |-> 0, direction |-> "None", stunned |->
     FALSE, stun_elapsed |-> 0, knockback |-> FALSE, kbx |-> 0, kby |-> 0,
     hit_flash |-> FALSE, flash_elapsed |-> 0], [health |-> 0, gen |-> 0,
     alive |-> FALSE, x |-> 0, y |-> 0, direction |-> "None", stunned |->
     FALSE, stun_elapsed |-> 0, knockback |-> FALSE, kbx |-> 0, kby |-> 0,
     hit_flash |-> FALSE, flash_elapsed |-> 0]>>, game_state |-> [score
     |-> 0, n_enemies |-> 0, timer |-> 48, last_spawn_time |-> 0,
     game_over |-> FALSE, screen |-> FALSE], messages |-> [damage |->
     <<>>, enemy_defeated |-> <<>>, player_defeated |-> 0], commands |->
     <<>>, hist |-> [aerial |-> 1, swing |-> <<>>, health0 |-> 20, queued
     |-> FALSE, jumped |-> FALSE, lethal |-> FALSE, attached |-> {},
     inv_contact |-> FALSE, contacts |-> 0, skipped |-> 0, kb |-> (0 :> [n
     |-> 0, vx |-> 0, vy |-> 0] @@ 1 :> [n |-> 0, vx |-> 0, vy |-> 0] @@ 2
     :> [n |-> 0, vx |-> 0, vy |-> 0] @@ 3 :> [n |-> 0, vx |-> 0, vy |->
     0] @@ 4 :> [n |-> 0, vx |-> 0, vy |-> 0] @@ 5 :> [n |-> 0, vx |-> 0,
     vy |-> 0] @@ 6 :> [n |-> 0, vx |-> 0, vy |-> 0]), punched |-> <<-1,
     -1, -1, -1, -1, -1>>, chain |-> <<>>, since_jump |-> "Jump", defeated
     |-> <<>>]]

\* D held on ticks 0..682 (running right), every enemy spawned on the left;
\* tick 2994: hit a moment ago (Invulnerable), the game timer about to expire
Overtime ==
    [tick |-> 0, state |-> "Idle", changed |-> [init |-> FALSE, hit |->
     FALSE, sprite |-> FALSE], anim |-> [elapsed |-> 4, duration |-> 12,
     just_finished |-> FALSE, index |-> 12, first |-> 1, last |-> 23],
     combo_window |-> [elapsed |-> 50, last_attack |-> "None",
     queued_combo |-> "None"], jump_physics |-> [has_used_aerial_attack
     |-> FALSE, velocity_y |-> 0, ground_y |-> -10000, jump_force |->
     1000], transform |-> [x |-> 1622376, y |-> -10000, direction |->
     "Right"], hitbox |-> [active |-> FALSE, offset |-> 0, w |-> 0, h |->
     0], hit_tracking |-> {}, health |-> 19, effects |-> [knockback |->
     TRUE, kbx |-> 237907, kby |-> -24275, hit_flash |-> TRUE,
     flash_elapsed |-> 28, invulnerable |-> TRUE, inv_elapsed |-> 24],
     enemies |-> <<[health |-> 6, gen |-> 1, alive |-> TRUE, x |->
     1606400, y |-> -9000, direction |-> "Right", stunned |-> FALSE,
     stun_elapsed |-> 0, knockback |-> FALSE, kbx |-> 0, kby |-> 0,
     hit_flash |-> FALSE, flash_elapsed |-> 0], [health |-> 6, gen |-> 1,
     alive |-> TRUE, x |-> 1576400, y |-> -9000, direction |-> "Right",
     stunned |-> FALSE, stun_elapsed |-> 0, knockback |-> FALSE, kbx |->
     0, kby |-> 0, hit_flash |-> FALSE, flash_elapsed |-> 0], [health |->
     6, gen |-> 1, alive |-> TRUE, x |-> 1546400, y |-> -9000, direction
     |-> "Right", stunned |-> FALSE, stun_elapsed |-> 0, knockback |->
     FALSE, kbx |-> 0, kby |-> 0, hit_flash |-> FALSE, flash_elapsed |->
     0], [health |-> 6, gen |-> 1, alive |-> TRUE, x |-> 1516400, y |->
     -9000, direction |-> "Right", stunned |-> FALSE, stun_elapsed |-> 0,
     knockback |-> FALSE, kbx |-> 0, kby |-> 0, hit_flash |-> FALSE,
     flash_elapsed |-> 0], [health |-> 6, gen |-> 1, alive |-> TRUE, x |->
     1486400, y |-> -9000, direction |-> "Right", stunned |-> FALSE,
     stun_elapsed |-> 0, knockback |-> FALSE, kbx |-> 0, kby |-> 0,
     hit_flash |-> FALSE, flash_elapsed |-> 0], [health |-> 6, gen |-> 1,
     alive |-> TRUE, x |-> 1456400, y |-> -9000, direction |-> "Right",
     stunned |-> FALSE, stun_elapsed |-> 0, knockback |-> FALSE, kbx |->
     0, kby |-> 0, hit_flash |-> FALSE, flash_elapsed |-> 0]>>, game_state
     |-> [score |-> 0, n_enemies |-> 6, timer |-> 11976, last_spawn_time
     |-> 1200, game_over |-> FALSE, screen |-> FALSE], messages |->
     [damage |-> <<>>, enemy_defeated |-> <<>>, player_defeated |-> 0],
     commands |-> <<>>, hist |-> [aerial |-> 0, swing |-> <<>>, health0
     |-> 19, queued |-> FALSE, jumped |-> FALSE, lethal |-> FALSE,
     attached |-> {}, inv_contact |-> TRUE, contacts |-> 0, skipped |-> 0,
     kb |-> (0 :> [n |-> 7, vx |-> 497411, vy |-> -50756] @@ 1 :> [n |->
     0, vx |-> 0, vy |-> 0] @@ 2 :> [n |-> 0, vx |-> 0, vy |-> 0] @@ 3 :>
     [n |-> 0, vx |-> 0, vy |-> 0] @@ 4 :> [n |-> 0, vx |-> 0, vy |-> 0]
     @@ 5 :> [n |-> 0, vx |-> 0, vy |-> 0] @@ 6 :> [n |-> 0, vx |-> 0, vy
     |-> 0]), punched |-> <<-1, -1, -1, -1, -1, -1>>, chain |-> <<>>,
     since_jump |-> "None", defeated |-> <<>>]]

\* as LastStand, then ArrowUp on ticks 769 and 776 (a Punch, and a combo queued
\* behind it); tick 825: defeated in mid-punch by the contact on tick 777,
\* the Defeat animation one frame from its end, the combo still queued
Defeated ==
    [tick |-> 0, state |-> "Defeat", changed |-> [init |-> FALSE, hit |->
     FALSE, sprite |-> FALSE], anim |-> [elapsed |-> 8, duration |-> 10,
     just_finished |-> FALSE, index |-> 19, first |-> 1, last |-> 20],
     combo_window |-> [elapsed |-> 32, last_attack |-> "Punch",
     queued_combo |-> "PunchCombo"], jump_physics |->
     [has_used_aerial_attack |-> FALSE, velocity_y |-> 0, ground_y |->
     -10000, jump_force |-> 1000], transform |-> [x |-> -136178, y |->
     -10000, direction |-> "Left"], hitbox |-> [active |-> FALSE, offset
     |-> -8000, w |-> 6000, h |-> 4000], hit_tracking |-> {}, health |->
     0, effects |-> [knockback |-> FALSE, kbx |-> 0, kby |-> 0, hit_flash
     |-> FALSE, flash_elapsed |-> 0, invulnerable |-> FALSE, inv_elapsed
     |-> 0], enemies |-> <<[health |-> 0, gen |-> 1, alive |-> FALSE, x
     |-> 0, y |-> 0, direction |-> "None", stunned |-> FALSE, stun_elapsed
     |-> 0, knockback |-> FALSE, kbx |-> 0, kby |-> 0, hit_flash |->
     FALSE, flash_elapsed |-> 0], [health |-> 0, gen |-> 1, alive |->
     FALSE, x |-> 0, y |-> 0, direction |-> "None", stunned |-> FALSE,
     stun_elapsed |-> 0, knockback |-> FALSE, kbx |-> 0, kby |-> 0,
     hit_flash |-> FALSE, flash_elapsed |-> 0], [health |-> 0, gen |-> 1,
     alive |-> FALSE, x |-> 0, y |-> 0, direction |-> "None", stunned |->
     FALSE, stun_elapsed |-> 0, knockback |-> FALSE, kbx |-> 0, kby |-> 0,
     hit_flash |-> FALSE, flash_elapsed |-> 0], [health |-> 0, gen |-> 1,
     alive |-> FALSE, x |-> 0, y |-> 0, direction |-> "None", stunned |->
     FALSE, stun_elapsed |-> 0, knockback |-> FALSE, kbx |-> 0, kby |-> 0,
     hit_flash |-> FALSE, flash_elapsed |-> 0], [health |-> 0, gen |-> 1,
     alive |-> FALSE, x |-> 0, y |-> 0, direction |-> "None", stunned |->
     FALSE, stun_elapsed |-> 0, knockback |-> FALSE, kbx |-> 0, kby |-> 0,
     hit_flash |-> FALSE, flash_elapsed |-> 0], [health |-> 0, gen |-> 1,
     alive |-> FALSE, x |-> 0, y |-> 0, direction |-> "None", stunned |->
     FALSE, stun_elapsed |-> 0, knockback |-> FALSE, kbx |-> 0, kby |-> 0,
     hit_flash |-> FALSE, flash_elapsed |-> 0]>>, game_state |-> [score
     |-> 0, n_enemies |-> 6, timer |-> 3108, last_spawn_time |-> 1200,
     game_over |-> TRUE, screen |-> TRUE], messages |-> [damage |-> <<>>,
     enemy_defeated |-> <<>>, player_defeated |-> 0], commands |-> <<>>,
     hist |-> [aerial |-> 0, swing |-> <<>>, health0 |-> 0, queued |->
     FALSE, jumped |-> FALSE, lethal |-> FALSE, attached |-> {},
     inv_contact |-> FALSE, contacts |-> 0, skipped |-> 0, kb |-> (0 :> [n
     |-> 38, vx |-> -497325, vy |-> -51440] @@ 1 :> [n |-> 0, vx |-> 0, vy
     |-> 0] @@ 2 :> [n |-> 0, vx |-> 0, vy |-> 0] @@ 3 :> [n |-> 0, vx |->
     0, vy |-> 0] @@ 4 :> [n |-> 0, vx |-> 0, vy |-> 0] @@ 5 :> [n |-> 0,
     vx |-> 0, vy |-> 0] @@ 6 :> [n |-> 0, vx |-> 0, vy |-> 0]), punched
     |-> <<-1, -1, -1, -1, -1, -1>>, chain |-> <<>>, since_jump |->
     "None", defeated |-> <<>>]]

\* Space on tick 0, no other key; tick 10: in Jump, still rising, the apex four
\* ticks away
Rising ==
    [tick |-> 0, state |-> "Jump", changed |-> [init |-> FALSE, hit |->
     FALSE, sprite |-> FALSE], anim |-> [elapsed |-> 0, duration |-> 5,
     just_finished |-> TRUE, index |-> 9, first |-> 1, last |-> 26],
     combo_window |-> [elapsed |-> 40, last_attack |-> "None",
     queued_combo |-> "None"], jump_physics |-> [has_used_aerial_attack
     |-> FALSE, velocity_y |-> 280, ground_y |-> -20000, jump_force |->
     1000], transform |-> [x |-> -20000, y |-> 4160, direction |->
     "None"], hitbox |-> [active |-> FALSE, offset |-> 0, w |-> 0, h |->
     0], hit_tracking |-> {}, health |-> 20, effects |-> [knockback |->
     FALSE, kbx |-> 0, kby |-> 0, hit_flash |-> FALSE, flash_elapsed |->
     0, invulnerable |-> FALSE, inv_elapsed |-> 0], enemies |-> <<[health
     |-> 0, gen |-> 0, alive |-> FALSE, x |-> 0, y |-> 0, direction |->
     "None", stunned |-> FALSE, stun_elapsed |-> 0, knockback |-> FALSE,
     kbx |-> 0, kby |-> 0, hit_flash |-> FALSE, flash_elapsed |-> 0],
     [health |-> 0, gen |-> 0, alive |-> FALSE, x |-> 0, y |-> 0,
     direction |-> "None", stunned |-> FALSE, stun_elapsed |-> 0,
     knockback |-> FALSE, kbx |-> 0, kby |-> 0, hit_flash |-> FALSE,
     flash_elapsed |-> 0], [health |-> 0, gen |-> 0, alive |-> FALSE, x
     |-> 0, y |-> 0, direction |-> "None", stunned |-> FALSE, stun_elapsed
     |-> 0, knockback |-> FALSE, kbx |-> 0, kby |-> 0, hit_flash |->
     FALSE, flash_elapsed |-> 0], [health |-> 0, gen |-> 0, alive |->
     FALSE, x |-> 0, y |-> 0, direction |-> "None", stunned |-> FALSE,
     stun_elapsed |-> 0, knockback |-> FALSE, kbx |-> 0, kby |-> 0,
     hit_flash |-> FALSE, flash_elapsed |-> 0], [health |-> 0, gen |-> 0,
     alive |-> FALSE, x |-> 0, y |-> 0, direction |-> "None", stunned |->
     FALSE, stun_elapsed |-> 0, knockback |-> FALSE, kbx |-> 0, kby |-> 0,
     hit_flash |-> FALSE, flash_elapsed |-> 0], [health |-> 0, gen |-> 0,
     alive |-> FALSE, x |-> 0, y |-> 0, direction |-> "None", stunned |->
     FALSE, stun_elapsed |-> 0, knockback |-> FALSE, kbx |-> 0, kby |-> 0,
     hit_flash |-> FALSE, flash_elapsed |-> 0]>>, game_state |-> [score
     |-> 0, n_enemies |-> 0, timer |-> 40, last_spawn_time |-> 0,
     game_over |-> FALSE, screen |-> FALSE], messages |-> [damage |->
     <<>>, enemy_defeated |-> <<>>, player_defeated |-> 0], commands |->
     <<>>, hist |-> [aerial |-> 0, swing |-> <<>>, health0 |-> 20, queued
     |-> FALSE, jumped |-> FALSE, lethal |-> FALSE, attached |-> {},
     inv_contact |-> FALSE, contacts |-> 0, skipped |-> 0, kb |-> (0 :> [n
     |-> 0, vx |-> 0, vy |-> 0] @@ 1 :> [n |-> 0, vx |-> 0, vy |-> 0] @@ 2
     :> [n |-> 0, vx |-> 0, vy |-> 0] @@ 3 :> [n |-> 0, vx |-> 0, vy |->
     0] @@ 4 :> [n |-> 0, vx |-> 0, vy |-> 0] @@ 5 :> [n |-> 0, vx |-> 0,
     vy |-> 0] @@ 6 :> [n |-> 0, vx |-> 0, vy |-> 0]), punched |-> <<-1,
     -1, -1, -1, -1, -1>>, chain |-> <<>>, since_jump |-> "Jump", defeated
     |-> <<>>]]

\* no key at all, enemies spawned left, right, right, right, left, left; tick 856:
\* health 1, Invulnerable about to expire, two enemies at almost the same
\* distance closing in
Surrounded ==
    [tick |-> 0, state |-> "Idle", changed |-> [init |-> FALSE, hit |->
     FALSE, sprite |-> FALSE], anim |-> [elapsed |-> 4, duration |-> 12,
     just_finished |-> FALSE, index |-> 10, first |-> 1, last |-> 23],
     combo_window |-> [elapsed |-> 50, last_attack |-> "None",
     queued_combo |-> "None"], jump_physics |-> [has_used_aerial_attack
     |-> FALSE, velocity_y |-> 0, ground_y |-> -10000, jump_force |->
     1000], transform |-> [x |-> -307046, y |-> -10000, direction |->
     "None"], hitbox |-> [active |-> FALSE, offset |-> 0, w |-> 0, h |->
     0], hit_tracking |-> {}, health |-> 1, effects |-> [knockback |->
     TRUE, kbx |-> -39663, kby |-> -4149, hit_flash |-> FALSE,
     flash_elapsed |-> 0, invulnerable |-> TRUE, inv_elapsed |-> 92],
     enemies |-> <<[health |-> 6, gen |-> 1, alive |-> TRUE, x |->
     -290800, y |-> -9000, direction |-> "Left", stunned |-> FALSE,
     stun_elapsed |-> 0, knockback |-> FALSE, kbx |-> 0, kby |-> 0,
     hit_flash |-> FALSE, flash_elapsed |-> 0], [health |-> 6, gen |-> 1,
     alive |-> TRUE, x |-> -293600, y |-> -9000, direction |-> "Left",
     stunned |-> FALSE, stun_elapsed |-> 0, knockback |-> FALSE, kbx |->
     0, kby |-> 0, hit_flash |-> FALSE, flash_elapsed |-> 0], [health |->
     6, gen |-> 1, alive |-> TRUE, x |-> -263600, y |-> -9000, direction
     |-> "Left", stunned |-> FALSE, stun_elapsed |-> 0, knockback |->
     FALSE, kbx |-> 0, kby |-> 0, hit_flash |-> FALSE, flash_elapsed |->
     0], [health |-> 6, gen |-> 1, alive |-> TRUE, x |-> -233600, y |->
     -9000, direction |-> "Left", stunned |-> FALSE, stun_elapsed |-> 0,
     knockback |-> FALSE, kbx |-> 0, kby |-> 0, hit_flash |-> FALSE,
     flash_elapsed |-> 0], [health |-> 6, gen |-> 1, alive |-> TRUE, x |->
     -289600, y |-> -9000, direction |-> "Left", stunned |-> FALSE,
     stun_elapsed |-> 0, knockback |-> FALSE, kbx |-> 0, kby |-> 0,
     hit_flash |-> FALSE, flash_elapsed |-> 0], [health |-> 6, gen |-> 1,
     alive |-> TRUE, x |-> -293200, y |-> -9000, direction |-> "Left",
     stunned |-> FALSE, stun_elapsed |-> 0, knockback |-> FALSE, kbx |->
     0, kby |-> 0, hit_flash |-> FALSE, flash_elapsed |-> 0]>>, game_state
     |-> [score |-> 0, n_enemies |-> 6, timer |-> 3424, last_spawn_time
     |-> 1200, game_over |-> FALSE, screen |-> FALSE], messages |->
     [damage |-> <<>>, enemy_defeated |-> <<>>, player_defeated |-> 0],
     commands |-> <<>>, hist |-> [aerial |-> 0, swing |-> <<>>, health0
     |-> 1, queued |-> FALSE, jumped |-> FALSE, lethal |-> FALSE, attached
     |-> {}, inv_contact |-> TRUE, contacts |-> 0, skipped |-> 0, kb |->
     (0 :> [n |-> 24, vx |-> -497292, vy |-> -52061] @@ 1 :> [n |-> 0, vx
     |-> 0, vy |-> 0] @@ 2 :> [n |-> 0, vx |-> 0, vy |-> 0] @@ 3 :> [n |->
     0, vx |-> 0, vy |-> 0] @@ 4 :> [n |-> 0, vx |-> 0, vy |-> 0] @@ 5 :>
     [n |-> 0, vx |-> 0, vy |-> 0] @@ 6 :> [n |-> 0, vx |-> 0, vy |-> 0]),
     punched |-> <<-1, -1, -1, -1, -1, -1>>, chain |-> <<>>, since_jump
     |-> "None", defeated |-> <<>>]]

\* no key at all, enemies spawned left, left, right, right, left, left; tick 372:
\* Invulnerable for eleven more ticks, one enemy within contact distance on the
\* right, two more a few steps away on the left
Crowded ==
    [tick |-> 0, state |-> "Idle", changed |-> [init |-> FALSE, hit |->
     FALSE, sprite |-> FALSE], anim |-> [elapsed |-> 0, duration |-> 12,
     just_finished |-> TRUE, index |-> 10, first |-> 1, last |-> 23],
     combo_window |-> [elapsed |-> 50, last_attack |-> "None",
     queued_combo |-> "None"], jump_physics |-> [has_used_aerial_attack
     |-> FALSE, velocity_y |-> 0, ground_y |-> -10000, jump_force |->
     1000], transform |-> [x |-> 49072, y |-> -10000, direction |->
     "None"], hitbox |-> [active |-> FALSE, offset |-> 0, w |-> 0, h |->
     0], hit_tracking |-> {}, health |-> 16, effects |-> [knockback |->
     TRUE, kbx |-> 78418, kby |-> -66455, hit_flash |-> FALSE,
     flash_elapsed |-> 0, invulnerable |-> TRUE, inv_elapsed |-> 56],
     enemies |-> <<[health |-> 6, gen |-> 1, alive |-> TRUE, x |-> 33200,
     y |-> -9000, direction |-> "Right", stunned |-> FALSE, stun_elapsed
     |-> 0, knockback |-> FALSE, kbx |-> 0, kby |-> 0, hit_flash |->
     FALSE, flash_elapsed |-> 0], [health |-> 6, gen |-> 1, alive |->
     TRUE, x |-> 3200, y |-> -9000, direction |-> "Right", stunned |->
     FALSE, stun_elapsed |-> 0, knockback |-> FALSE, kbx |-> 0, kby |-> 0,
     hit_flash |-> FALSE, flash_elapsed |-> 0], [health |-> 6, gen |-> 1,
     alive |-> TRUE, x |-> 34000, y |-> -9000, direction |-> "Right",
     stunned |-> FALSE, stun_elapsed |-> 0, knockback |-> FALSE, kbx |->
     0, kby |-> 0, hit_flash |-> FALSE, flash_elapsed |-> 0], [health |->
     6, gen |-> 1, alive |-> TRUE, x |-> 56800, y |-> -9000, direction |->
     "Left", stunned |-> FALSE, stun_elapsed |-> 0, knockback |-> FALSE,
     kbx |-> 0, kby |-> 0, hit_flash |-> FALSE, flash_elapsed |-> 0],
     [health |-> 6, gen |-> 1, alive |-> TRUE, x |-> -86800, y |-> -9000,
     direction |-> "Right", stunned |-> FALSE, stun_elapsed |-> 0,
     knockback |-> FALSE, kbx |-> 0, kby |-> 0, hit_flash |-> FALSE,
     flash_elapsed |-> 0], [health |-> 6, gen |-> 1, alive |-> TRUE, x |->
     -116800, y |-> -9000, direction |-> "Right", stunned |-> FALSE,
     stun_elapsed |-> 0, knockback |-> FALSE, kbx |-> 0, kby |-> 0,
     hit_flash |-> FALSE, flash_elapsed |-> 0]>>, game_state |-> [score
     |-> 0, n_enemies |-> 6, timer |-> 1488, last_spawn_time |-> 1200,
     game_over |-> FALSE, screen |-> FALSE], messages |-> [damage |->
     <<>>, enemy_defeated |-> <<>>, player_defeated |-> 0], commands |->
     <<>>, hist |-> [aerial |-> 0, swing |-> <<>>, health0 |-> 16, queued
     |-> FALSE, jumped |-> FALSE, lethal |-> FALSE, attached |-> {},
     inv_contact |-> TRUE, contacts |-> 0, skipped |-> 0, kb |-> (0 :> [n
     |-> 15, vx |-> 380890, vy |-> -322788] @@ 1 :> [n |-> 0, vx |-> 0, vy
     |-> 0] @@ 2 :> [n |-> 0, vx |-> 0, vy |-> 0] @@ 3 :> [n |-> 0, vx |->
     0, vy |-> 0] @@ 4 :> [n |-> 0, vx |-> 0, vy |-> 0] @@ 5 :> [n |-> 0,
     vx |-> 0, vy |-> 0] @@ 6 :> [n |-> 0, vx |-> 0, vy |-> 0]), punched
     |-> <<-1, -1, -1, -1, -1, -1>>, chain |-> <<>>, since_jump |->
     "None", defeated |-> <<>>]]

\* as LastStand, earlier in the same game; tick 463: health 12, Invulnerable about
\* to expire, two enemies within contact distance
Pincer ==
    [tick |-> 8, state |-> "Idle", changed |-> [init |-> FALSE, hit |->
     FALSE, sprite |-> FALSE], anim |-> [elapsed |-> 8, duration |-> 12,
     just_finished |-> FALSE, index |-> 6, first |-> 1, last |-> 23],
     combo_window |-> [elapsed |-> 50, last_attack |-> "None",
     queued_combo |-> "None"], jump_physics |-> [has_used_aerial_attack
     |-> FALSE, velocity_y |-> 0, ground_y |-> -10000, jump_force |->
     1000], transform |-> [x |-> 16434, y |-> -10000, direction |->
     "Left"], hitbox |-> [active |-> FALSE, offset |-> 0, w |-> 0, h |->
     0], hit_tracking |-> {}, health |-> 12, effects |-> [knockback |->
     TRUE, kbx |-> 39680, kby |-> -3988, hit_flash |-> FALSE,
     flash_elapsed |-> 0, invulnerable |-> TRUE, inv_elapsed |-> 92],
     enemies |-> <<[health |-> 6, gen |-> 1, alive |-> TRUE, x |-> 2600, y
     |-> -9000, direction |-> "Right", stunned |-> FALSE, stun_elapsed |->
     0, knockback |-> FALSE, kbx |-> 0, kby |-> 0, hit_flash |-> FALSE,
     flash_elapsed |-> 0], [health |-> 6, gen |-> 1, alive |-> TRUE, x |->
     2200, y |-> -9000, direction |-> "Right", stunned |-> FALSE,
     stun_elapsed |-> 0, knockback |-> FALSE, kbx |-> 0, kby |-> 0,
     hit_flash |-> FALSE, flash_elapsed |-> 0], [health |-> 6, gen |-> 1,
     alive |-> TRUE, x |-> 2600, y |-> -9000, direction |-> "Right",
     stunned |-> FALSE, stun_elapsed |-> 0, knockback |-> FALSE, kbx |->
     0, kby |-> 0, hit_flash |-> FALSE, flash_elapsed |-> 0], [health |->
     6, gen |-> 1, alive |-> TRUE, x |-> 2200, y |-> -9000, direction |->
     "Left", stunned |-> FALSE, stun_elapsed |-> 0, knockback |-> FALSE,
     kbx |-> 0, kby |-> 0, hit_flash |-> FALSE, flash_elapsed |-> 0],
     [health |-> 6, gen |-> 1, alive |-> TRUE, x |-> -32200, y |-> -9000,
     direction |-> "Right", stunned |-> FALSE, stun_elapsed |-> 0,
     knockback |-> FALSE, kbx |-> 0, kby |-> 0, hit_flash |-> FALSE,
     flash_elapsed |-> 0], [health |-> 6, gen |-> 1, alive |-> TRUE, x |->
     62200, y |-> -9000, direction |-> "Left", stunned |-> FALSE,
     stun_elapsed |-> 0, knockback |-> FALSE, kbx |-> 0, kby |-> 0,
     hit_flash |-> FALSE, flash_elapsed |-> 0]>>, game_state |-> [score
     |-> 0, n_enemies |-> 6, timer |-> 1852, last_spawn_time |-> 1200,
     game_over |-> FALSE, screen |-> FALSE], messages |-> [damage |->
     <<>>, enemy_defeated |-> <<>>, player_defeated |-> 0], commands |->
     <<>>, hist |-> [aerial |-> 0, swing |-> <<>>, health0 |-> 12, queued
     |-> FALSE, jumped |-> FALSE, lethal |-> FALSE, attached |-> {},
     inv_contact |-> TRUE, contacts |-> 0, skipped |-> 0, kb |-> (0 :> [n
     |-> 24, vx |-> 497496, vy |-> -50060] @@ 1 :> [n |-> 0, vx |-> 0, vy
     |-> 0] @@ 2 :> [n |-> 0, vx |-> 0, vy |-> 0] @@ 3 :> [n |-> 0, vx |->
     0, vy |-> 0] @@ 4 :> [n |-> 0, vx |-> 0, vy |-> 0] @@ 5 :> [n |-> 0,
     vx |-> 0, vy |-> 0] @@ 6 :> [n |-> 0, vx |-> 0, vy |-> 0]), punched
     |-> <<-1, -1, -1, -1, -1, -1>>, chain |-> <<>>, since_jump |->
     "None", defeated |-> <<>>]]

\* D pressed on tick 100, ArrowUp on tick 341, enemies spawned left, left, right,
\* right, left, left; tick 351: the Punch, which hit an enemy close in front on
\* tick 344, is about to end, the enemy still Stunned and within reach
Reprise ==
    [tick |-> 7, state |-> "Punch", changed |-> [init |-> FALSE, hit |->
     FALSE, sprite |-> FALSE], anim |-> [elapsed |-> 1, duration |-> 3,
     just_finished |-> TRUE, index |-> 11, first |-> 1, last |-> 12],
     combo_window |-> [elapsed |-> 36, last_attack |-> "Punch",
     queued_combo |-> "None"], jump_physics |-> [has_used_aerial_attack
     |-> FALSE, velocity_y |-> 0, ground_y |-> -10000, jump_force |->
     1000], transform |-> [x |-> 36554, y |-> -10000, direction |->
     "Right"], hitbox |-> [active |-> FALSE, offset |-> 8000, w |-> 6000,
     h |-> 4000], hit_tracking |-> {<<3, 1>>}, health |-> 17, effects |->
     [knockback |-> TRUE, kbx |-> 82932, kby |-> -8649, hit_flash |->
     FALSE, flash_elapsed |-> 0, invulnerable |-> TRUE, inv_elapsed |->
     64], enemies |-> <<[health |-> 6, gen |-> 1, alive |-> TRUE, x |->
     20600, y |-> -9000, direction |-> "Right", stunned |-> FALSE,
     stun_elapsed |-> 0, knockback |-> FALSE, kbx |-> 0, kby |-> 0,
     hit_flash |-> FALSE, flash_elapsed |-> 0], [health |-> 6, gen |-> 1,
     alive |-> TRUE, x |-> -9400, y |-> -9000, direction |-> "Right",
     stunned |-> FALSE, stun_elapsed |-> 0, knockback |-> FALSE, kbx |->
     0, kby |-> 0, hit_flash |-> FALSE, flash_elapsed |-> 0], [health |->
     4, gen |-> 1, alive |-> TRUE, x |-> 49828, y |-> -8419, direction |->
     "Left", stunned |-> TRUE, stun_elapsed |-> 28, knockback |-> TRUE,
     kbx |-> 142857, kby |-> 13397, hit_flash |-> TRUE, flash_elapsed |->
     28], [health |-> 6, gen |-> 1, alive |-> TRUE, x |-> 69400, y |->
     -9000, direction |-> "Left", stunned |-> FALSE, stun_elapsed |-> 0,
     knockback |-> FALSE, kbx |-> 0, kby |-> 0, hit_flash |-> FALSE,
     flash_elapsed |-> 0], [health |-> 6, gen |-> 1, alive |-> TRUE, x |->
     -99400, y |-> -9000, direction |-> "Right", stunned |-> FALSE,
     stun_elapsed |-> 0, knockback |-> FALSE, kbx |-> 0, kby |-> 0,
     hit_flash |-> FALSE, flash_elapsed |-> 0], [health |-> 6, gen |-> 1,
     alive |-> TRUE, x |-> -129400, y |-> -9000, direction |-> "Right",
     stunned |-> FALSE, stun_elapsed |-> 0, knockback |-> FALSE, kbx |->
     0, kby |-> 0, hit_flash |-> FALSE, flash_elapsed |-> 0]>>, game_state
     |-> [score |-> 0, n_enemies |-> 6, timer |-> 1404, last_spawn_time
     |-> 1200, game_over |-> FALSE, screen |-> FALSE], messages |->
     [damage |-> <<>>, enemy_defeated |-> <<>>, player_defeated |-> 0],
     commands |-> <<>>, hist |-> [aerial |-> 0, swing |-> <<<<3, 1>>>>,
     health0 |-> 17, queued |-> FALSE, jumped |-> FALSE, lethal |-> FALSE,
     attached |-> {}, inv_contact |-> TRUE, contacts |-> 0, skipped |-> 0,
     kb |-> (0 :> [n |-> 17, vx |-> 497302, vy |-> -51877] @@ 1 :> [n |->
     0, vx |-> 0, vy |-> 0] @@ 2 :> [n |-> 0, vx |-> 0, vy |-> 0] @@ 3 :>
     [n |-> 7, vx |-> 298683, vy |-> 28016] @@ 4 :> [n |-> 0, vx |-> 0, vy
     |-> 0] @@ 5 :> [n |-> 0, vx |-> 0, vy |-> 0] @@ 6 :> [n |-> 0, vx |->
     0, vy |-> 0]), punched |-> <<-1, -1, 24, -1, -1, -1>>, chain |->
     <<"Punch">>, since_jump |-> "None", defeated |-> <<>>]]

\* Space on tick 0 (a jump from the spawn position, below the initial ground_y),
\* no other key; tick 800: defeated, the game over
Sunk ==
    [tick |-> 10, state |-> "Defeat", changed |-> [init |-> FALSE, hit |->
     FALSE, sprite |-> FALSE], anim |-> [elapsed |-> 8, duration |-> 10,
     just_finished |-> FALSE, index |-> 3, first |-> 1, last |-> 20],
     combo_window |-> [elapsed |-> 50, last_attack |-> "None",
     queued_combo |-> "None"], jump_physics |-> [has_used_aerial_attack
     |-> FALSE, velocity_y |-> 0, ground_y |-> -20000, jump_force |->
     1000], transform |-> [x |-> -175763, y |-> -20000, direction |->
     "None"], hitbox |-> [active |-> FALSE, offset |-> 0, w |-> 0, h |->
     0], hit_tracking |-> {}, health |-> 0, effects |-> [knockback |->
     FALSE, kbx |-> 0, kby |-> 0, hit_flash |-> FALSE, flash_elapsed |->
     0, invulnerable |-> FALSE, inv_elapsed |-> 0], enemies |-> <<[health
     |-> 0, gen |-> 1, alive |-> FALSE, x |-> 0, y |-> 0, direction |->
     "None", stunned |-> FALSE, stun_elapsed |-> 0, knockback |-> FALSE,
     kbx |-> 0, kby |-> 0, hit_flash |-> FALSE, flash_elapsed |-> 0],
     [health |-> 0, gen |-> 1, alive |-> FALSE, x |-> 0, y |-> 0,
     direction |-> "None", stunned |-> FALSE, stun_elapsed |-> 0,
     knockback |-> FALSE, kbx |-> 0, kby |-> 0, hit_flash |-> FALSE,
     flash_elapsed |-> 0], [health |-> 0, gen |-> 1, alive |-> FALSE, x
     |-> 0, y |-> 0, direction |-> "None", stunned |-> FALSE, stun_elapsed
     |-> 0, knockback |-> FALSE, kbx |-> 0, kby |-> 0, hit_flash |->
     FALSE, flash_elapsed |-> 0], [health |-> 0, gen |-> 1, alive |->
     FALSE, x |-> 0, y |-> 0, direction |-> "None", stunned |-> FALSE,
     stun_elapsed |-> 0, knockback |-> FALSE, kbx |-> 0, kby |-> 0,
     hit_flash |-> FALSE, flash_elapsed |-> 0], [health |-> 0, gen |-> 1,
     alive |-> FALSE, x |-> 0, y |-> 0, direction |-> "None", stunned |->
     FALSE, stun_elapsed |-> 0, knockback |-> FALSE, kbx |-> 0, kby |-> 0,
     hit_flash |-> FALSE, flash_elapsed |-> 0], [health |-> 0, gen |-> 1,
     alive |-> FALSE, x |-> 0, y |-> 0, direction |-> "None", stunned |->
     FALSE, stun_elapsed |-> 0, knockback |-> FALSE, kbx |-> 0, kby |-> 0,
     hit_flash |-> FALSE, flash_elapsed |-> 0]>>, game_state |-> [score
     |-> 0, n_enemies |-> 6, timer |-> 3168, last_spawn_time |-> 1200,
     game_over |-> TRUE, screen |-> TRUE], messages |-> [damage |-> <<>>,
     enemy_defeated |-> <<>>, player_defeated |-> 0], commands |-> <<>>,
     hist |-> [aerial |-> 0, swing |-> <<>>, health0 |-> 0, queued |->
     FALSE, jumped |-> FALSE, lethal |-> FALSE, attached |-> {},
     inv_contact |-> FALSE, contacts |-> 0, skipped |-> 0, kb |-> (0 :> [n
     |-> 38, vx |-> -497214, vy |-> -52559] @@ 1 :> [n |-> 0, vx |-> 0, vy
     |-> 0] @@ 2 :> [n |-> 0, vx |-> 0, vy |-> 0] @@ 3 :> [n |-> 0, vx |->
     0, vy |-> 0] @@ 4 :> [n |-> 0, vx |-> 0, vy |-> 0] @@ 5 :> [n |-> 0,
     vx |-> 0, vy |-> 0] @@ 6 :> [n |-> 0, vx |-> 0, vy |-> 0]), punched
     |-> <<-1, -1, -1, -1, -1, -1>>, chain |-> <<>>, since_jump |->
     "Land", defeated |-> <<>>]]

\* ArrowDown on ticks 2 and 13; tick 20: the Kick about to end, KickCombo queued
KickChain ==
    [tick |-> 10, state |-> "Kick", changed |-> [init |-> FALSE, hit |->
     FALSE, sprite |-> FALSE], anim |-> [elapsed |-> 0, duration |-> 2,
     just_finished |-> TRUE, index |-> 19, first |-> 1, last |-> 20],
     combo_window |-> [elapsed |-> 50, last_attack |-> "Kick",
     queued_combo |-> "KickCombo"], jump_physics |->
     [has_used_aerial_attack |-> FALSE, velocity_y |-> 0, ground_y |->
     -10000, jump_force |-> 1000], transform |-> [x |-> -20000, y |->
     -10000, direction |-> "None"], hitbox |-> [active |-> FALSE, offset
     |-> 0, w |-> 8000, h |-> 5000], hit_tracking |-> {}, health |-> 20,
     effects |-> [knockback |-> FALSE, kbx |-> 0, kby |-> 0, hit_flash |->
     FALSE, flash_elapsed |-> 0, invulnerable |-> FALSE, inv_elapsed |->
     0], enemies |-> <<[health |-> 0, gen |-> 0, alive |-> FALSE, x |-> 0,
     y |-> 0, direction |-> "None", stunned |-> FALSE, stun_elapsed |-> 0,
     knockback |-> FALSE, kbx |-> 0, kby |-> 0, hit_flash |-> FALSE,
     flash_elapsed |-> 0], [health |-> 0, gen |-> 0, alive |-> FALSE, x
     |-> 0, y |-> 0, direction |-> "None", stunned |-> FALSE, stun_elapsed
     |-> 0, knockback |-> FALSE, kbx |-> 0, kby |-> 0, hit_flash |->
     FALSE, flash_elapsed |-> 0], [health |-> 0, gen |-> 0, alive |->
     FALSE, x |-> 0, y |-> 0, direction |-> "None", stunned |-> FALSE,
     stun_elapsed |-> 0, knockback |-> FALSE, kbx |-> 0, kby |-> 0,
     hit_flash |-> FALSE, flash_elapsed |-> 0], [health |-> 0, gen |-> 0,
     alive |-> FALSE, x |-> 0, y |-> 0, direction |-> "None", stunned |->
     FALSE, stun_elapsed |-> 0, knockback |-> FALSE, kbx |-> 0, kby |-> 0,
     hit_flash |-> FALSE, flash_elapsed |-> 0], [health |-> 0, gen |-> 0,
     alive |-> FALSE, x |-> 0, y |-> 0, direction |-> "None", stunned |->
     FALSE, stun_elapsed |-> 0, knockback |-> FALSE, kbx |-> 0, kby |-> 0,
     hit_flash |-> FALSE, flash_elapsed |-> 0], [health |-> 0, gen |-> 0,
     alive |-> FALSE, x |-> 0, y |-> 0, direction |-> "None", stunned |->
     FALSE, stun_elapsed |-> 0, knockback |-> FALSE, kbx |-> 0, kby |-> 0,
     hit_flash |-> FALSE, flash_elapsed |-> 0]>>, game_state |-> [score
     |-> 0, n_enemies |-> 0, timer |-> 80, last_spawn_time |-> 0,
     game_over |-> FALSE, screen |-> FALSE], messages |-> [damage |->
     <<>>, enemy_defeated |-> <<>>, player_defeated |-> 0], commands |->
     <<>>, hist |-> [aerial |-> 0, swing |-> <<>>, health0 |-> 20, queued
     |-> FALSE, jumped |-> FALSE, lethal |-> FALSE, attached |-> {},
     inv_contact |-> FALSE, contacts |-> 0, skipped |-> 0, kb |-> (0 :> [n
     |-> 0, vx |-> 0, vy |-> 0] @@ 1 :> [n |-> 0, vx |-> 0, vy |-> 0] @@ 2
     :> [n |-> 0, vx |-> 0, vy |-> 0] @@ 3 :> [n |-> 0, vx |-> 0, vy |->
     0] @@ 4 :> [n |-> 0, vx |-> 0, vy |-> 0] @@ 5 :> [n |-> 0, vx |-> 0,
     vy |-> 0] @@ 6 :> [n |-> 0, vx |-> 0, vy |-> 0]), punched |-> <<-1,
     -1, -1, -1, -1, -1>>, chain |-> <<"Kick">>, since_jump |-> "None",
     defeated |-> <<>>]]

\* no key until the first contact on tick 267, then D held (running away to the
\* right); tick 300: the Knockback of that hit has decayed 33 times and is
\* five decay ticks from becoming negligible
Recoil ==
    [tick |-> 8, state |-> "Run", changed |-> [init |-> FALSE, hit |->
     FALSE, sprite |-> FALSE], anim |-> [elapsed |-> 1, duration |-> 7,
     just_finished |-> TRUE, index |-> 7, first |-> 1, last |-> 7],
     combo_window |-> [elapsed |-> 50, last_attack |-> "None",
     queued_combo |-> "None"], jump_physics |-> [has_used_aerial_attack
     |-> FALSE, velocity_y |-> 0, ground_y |-> -10000, jump_force |->
     1000], transform |-> [x |-> 68861, y |-> -10000, direction |->
     "Right"], hitbox |-> [active |-> FALSE, offset |-> 0, w |-> 0, h |->
     0], hit_tracking |-> {}, health |-> 19, effects |-> [knockback |->
     TRUE, kbx |-> 15367, kby |-> -1564, hit_flash |-> FALSE,
     flash_elapsed |-> 0, invulnerable |-> FALSE, inv_elapsed |-> 0],
     enemies |-> <<[health |-> 6, gen |-> 1, alive |-> TRUE, x |-> -10000,
     y |-> -9000, direction |-> "Right", stunned |-> FALSE, stun_elapsed
     |-> 0, knockback |-> FALSE, kbx |-> 0, kby |-> 0, hit_flash |->
     FALSE, flash_elapsed |-> 0], [health |-> 6, gen |-> 1, alive |->
     TRUE, x |-> -40000, y |-> -9000, direction |-> "Right", stunned |->
     FALSE, stun_elapsed |-> 0, knockback |-> FALSE, kbx |-> 0, kby |-> 0,
     hit_flash |-> FALSE, flash_elapsed |-> 0], [health |-> 6, gen |-> 1,
     alive |-> TRUE, x |-> -70000, y |-> -9000, direction |-> "Right",
     stunned |-> FALSE, stun_elapsed |-> 0, knockback |-> FALSE, kbx |->
     0, kby |-> 0, hit_flash |-> FALSE, flash_elapsed |-> 0], [health |->
     6, gen |-> 1, alive |-> TRUE, x |-> -100000, y |-> -9000, direction
     |-> "Right", stunned |-> FALSE, stun_elapsed |-> 0, knockback |->
     FALSE, kbx |-> 0, kby |-> 0, hit_flash |-> FALSE, flash_elapsed |->
     0], [health |-> 6, gen |-> 1, alive |-> TRUE, x |-> -130000, y |->
     -9000, direction |-> "Right", stunned |-> FALSE, stun_elapsed |-> 0,
     knockback |-> FALSE, kbx |-> 0, kby |-> 0, hit_flash |-> FALSE,
     flash_elapsed |-> 0], [health |-> 6, gen |-> 1, alive |-> TRUE, x |->
     -160000, y |-> 0, direction |-> "Right", stunned |-> FALSE,
     stun_elapsed |-> 0, knockback |-> FALSE, kbx |-> 0, kby |-> 0,
     hit_flash |-> FALSE, flash_elapsed |-> 0]>>, game_state |-> [score
     |-> 0, n_enemies |-> 6, timer |-> 1200, last_spawn_time |-> 1200,
     game_over |-> FALSE, screen |-> FALSE], messages |-> [damage |->
     <<>>, enemy_defeated |-> <<>>, player_defeated |-> 0], commands |->
     <<>>, hist |-> [aerial |-> 0, swing |-> <<>>, health0 |-> 19, queued
     |-> FALSE, jumped |-> FALSE, lethal |-> FALSE, attached |-> {},
     inv_contact |-> FALSE, contacts |-> 0, skipped |-> 0, kb |-> (0 :> [n
     |-> 33, vx |-> 497411, vy |-> -50756] @@ 1 :> [n |-> 0, vx |-> 0, vy
     |-> 0] @@ 2 :> [n |-> 0, vx |-> 0, vy |-> 0] @@ 3 :> [n |-> 0, vx |->
     0, vy |-> 0] @@ 4 :> [n |-> 0, vx |-> 0, vy |-> 0] @@ 5 :> [n |-> 0,
     vx |-> 0, vy |-> 0] @@ 6 :> [n |-> 0, vx |-> 0, vy |-> 0]), punched
     |-> <<-1, -1, -1, -1, -1, -1>>, chain |-> <<>>, since_jump |->
     "None", defeated |-> <<>>]]

\* as Reprise, later in the same game; tick 372: the Knockback of the enemy hit
\* on tick 344 is four ticks from becoming negligible
Ebb ==
    [tick |-> 8, state |-> "Idle", changed |-> [init |-> FALSE, hit |->
     FALSE, sprite |-> FALSE], anim |-> [elapsed |-> 8, duration |-> 12,
     just_finished |-> FALSE, index |-> 7, first |-> 1, last |-> 23],
     combo_window |-> [elapsed |-> 50, last_attack |-> "Punch",
     queued_combo |-> "None"], jump_physics |-> [has_used_aerial_attack
     |-> FALSE, velocity_y |-> 0, ground_y |-> -10000, jump_force |->
     1000], transform |-> [x |-> 28728, y |-> -10000, direction |->
     "Right"], hitbox |-> [active |-> FALSE, offset |-> 8000, w |-> 6000,
     h |-> 4000], hit_tracking |-> {<<3, 1>>}, health |-> 16, effects |->
     [knockback |-> TRUE, kbx |-> -237923, kby |-> -24172, hit_flash |->
     TRUE, flash_elapsed |-> 28, invulnerable |-> TRUE, inv_elapsed |->
     24], enemies |-> <<[health |-> 6, gen |-> 1, alive |-> TRUE, x |->
     33200, y |-> -9000, direction |-> "Right", stunned |-> FALSE,
     stun_elapsed |-> 0, knockback |-> FALSE, kbx |-> 0, kby |-> 0,
     hit_flash |-> FALSE, flash_elapsed |-> 0], [health |-> 6, gen |-> 1,
     alive |-> TRUE, x |-> 3200, y |-> -9000, direction |-> "Right",
     stunned |-> FALSE, stun_elapsed |-> 0, knockback |-> FALSE, kbx |->
     0, kby |-> 0, hit_flash |-> FALSE, flash_elapsed |-> 0], [health |->
     4, gen |-> 1, alive |-> TRUE, x |-> 45306, y |-> -9151, direction |->
     "Left", stunned |-> FALSE, stun_elapsed |-> 0, knockback |-> TRUE,
     kbx |-> 15627, kby |-> 1462, hit_flash |-> FALSE, flash_elapsed |->
     0], [health |-> 6, gen |-> 1, alive |-> TRUE, x |-> 56800, y |->
     -9000, direction |-> "Left", stunned |-> FALSE, stun_elapsed |-> 0,
     knockback |-> FALSE, kbx |-> 0, kby |-> 0, hit_flash |-> FALSE,
     flash_elapsed |-> 0], [health |-> 6, gen |-> 1, alive |-> TRUE, x |->
     -86800, y |-> -9000, direction |-> "Right", stunned |-> FALSE,
     stun_elapsed |-> 0, knockback |-> FALSE, kbx |-> 0, kby |-> 0,
     hit_flash |-> FALSE, flash_elapsed |-> 0], [health |-> 6, gen |-> 1,
     alive |-> TRUE, x |-> -116800, y |-> -9000, direction |-> "Right",
     stunned |-> FALSE, stun_elapsed |-> 0, knockback |-> FALSE, kbx |->
     0, kby |-> 0, hit_flash |-> FALSE, flash_elapsed |-> 0]>>, game_state
     |-> [score |-> 0, n_enemies |-> 6, timer |-> 1488, last_spawn_time
     |-> 1200, game_over |-> FALSE, screen |-> FALSE], messages |->
     [damage |-> <<>>, enemy_defeated |-> <<>>, player_defeated |-> 0],
     commands |-> <<>>, hist |-> [aerial |-> 0, swing |-> <<>>, health0
     |-> 16, queued |-> FALSE, jumped |-> FALSE, lethal |-> FALSE,
     attached |-> {}, inv_contact |-> TRUE, contacts |-> 0, skipped |-> 0,
     kb |-> (0 :> [n |-> 7, vx |-> -497442, vy |-> -50542] @@ 1 :> [n |->
     0, vx |-> 0, vy |-> 0] @@ 2 :> [n |-> 0, vx |-> 0, vy |-> 0] @@ 3 :>
     [n |-> 28, vx |-> 298683, vy |-> 28016] @@ 4 :> [n |-> 0, vx |-> 0,
     vy |-> 0] @@ 5 :> [n |-> 0, vx |-> 0, vy |-> 0] @@ 6 :> [n |-> 0, vx
     |-> 0, vy |-> 0]), punched |-> <<-1, -1, 108, -1, -1, -1>>, chain |->
     <<>>, since_jump |-> "None", defeated |-> <<>>]]

\* as Airborne (Space on tick 0, ArrowUp on tick 1: the one aerial attack of the
\* jump), then no key; tick 800: landed long ago, has_used_aerial_attack still
\* set, defeated on tick 792, the game over
Spent ==
    [tick |-> 10, state |-> "Defeat", changed |-> [init |-> FALSE, hit |->
     FALSE, sprite |-> FALSE], anim |-> [elapsed |-> 8, duration |-> 10,
     just_finished |-> FALSE, index |-> 3, first |-> 1, last |-> 20],
     combo_window |-> [elapsed |-> 50, last_attack |-> "JumpPunch",
     queued_combo |-> "None"], jump_physics |-> [has_used_aerial_attack
     |-> TRUE, velocity_y |-> 0, ground_y |-> -20000, jump_force |->
     1000], transform |-> [x |-> -175763, y |-> -20000, direction |->
     "None"], hitbox |-> [active |-> FALSE, offset |-> 0, w |-> 5000, h
     |-> 5000], hit_tracking |-> {}, health |-> 0, effects |-> [knockback
     |-> FALSE, kbx |-> 0, kby |-> 0, hit_flash |-> FALSE, flash_elapsed
     |-> 0, invulnerable |-> FALSE, inv_elapsed |-> 0], enemies |->
     <<[health |-> 0, gen |-> 1, alive |-> FALSE, x |-> 0, y |-> 0,
     direction |-> "None", stunned |-> FALSE, stun_elapsed |-> 0,
     knockback |-> FALSE, kbx |-> 0, kby |-> 0, hit_flash |-> FALSE,
     flash_elapsed |-> 0], [health |-> 0, gen |-> 1, alive |-> FALSE, x
     |-> 0, y |-> 0, direction |-> "None", stunned |-> FALSE, stun_elapsed
     |-> 0, knockback |-> FALSE, kbx |-> 0, kby |-> 0, hit_flash |->
     FALSE, flash_elapsed |-> 0], [health |-> 0, gen |-> 1, alive |->
     FALSE, x |-> 0, y |-> 0, direction |-> "None", stunned |-> FALSE,
     stun_elapsed |-> 0, knockback |-> FALSE, kbx |-> 0, kby |-> 0,
     hit_flash |-> FALSE, flash_elapsed |-> 0], [health |-> 0, gen |-> 1,
     alive |-> FALSE, x |-> 0, y |-> 0, direction |-> "None", stunned |->
     FALSE, stun_elapsed |-> 0, knockback |-> FALSE, kbx |-> 0, kby |-> 0,
     hit_flash |-> FALSE, flash_elapsed |-> 0], [health |-> 0, gen |-> 1,
     alive |-> FALSE, x |-> 0, y |-> 0, direction |-> "None", stunned |->
     FALSE, stun_elapsed |-> 0, knockback |-> FALSE, kbx |-> 0, kby |-> 0,
     hit_flash |-> FALSE, flash_elapsed |-> 0], [health |-> 0, gen |-> 1,
     alive |-> FALSE, x |-> 0, y |-> 0, direction |-> "None", stunned |->
     FALSE, stun_elapsed |-> 0, knockback |-> FALSE, kbx |-> 0, kby |-> 0,
     hit_flash |-> FALSE, flash_elapsed |-> 0]>>, game_state |-> [score
     |-> 0, n_enemies |-> 6, timer |-> 3168, last_spawn_time |-> 1200,
     game_over |-> TRUE, screen |-> TRUE], messages |-> [damage |-> <<>>,
     enemy_defeated |-> <<>>, player_defeated |-> 0], commands |-> <<>>,
     hist |-> [aerial |-> 1, swing |-> <<>>, health0 |-> 0, queued |->
     FALSE, jumped |-> FALSE, lethal |-> FALSE, attached |-> {},
     inv_contact |-> FALSE, contacts |-> 0, skipped |-> 0, kb |-> (0 :> [n
     |-> 38, vx |-> -497214, vy |-> -52559] @@ 1 :> [n |-> 0, vx |-> 0, vy
     |-> 0] @@ 2 :> [n |-> 0, vx |-> 0, vy |-> 0] @@ 3 :> [n |-> 0, vx |->
     0, vy |-> 0] @@ 4 :> [n |-> 0, vx |-> 0, vy |-> 0] @@ 5 :> [n |-> 0,
     vx |-> 0, vy |-> 0] @@ 6 :> [n |-> 0, vx |-> 0, vy |-> 0]), punched
     |-> <<-1, -1, -1, -1, -1, -1>>, chain |-> <<>>, since_jump |->
     "Land", defeated |-> <<>>]]

\* Space on tick 0, ArrowUp on tick 28, when the Fall has just reached the
\* ground; tick 40: JumpPunch under way at ground level, five frames from the
\* end of its animation
Touchdown ==
    [tick |-> 8, state |-> "JumpPunch", changed |-> [init |-> FALSE, hit
     |-> FALSE, sprite |-> FALSE], anim |-> [elapsed |-> 0, duration |->
     2, just_finished |-> TRUE, index |-> 13, first |-> 1, last |-> 17],
     combo_window |-> [elapsed |-> 44, last_attack |-> "JumpPunch",
     queued_combo |-> "None"], jump_physics |-> [has_used_aerial_attack
     |-> TRUE, velocity_y |-> 0, ground_y |-> -20000, jump_force |->
     1000], transform |-> [x |-> -20000, y |-> -20000, direction |->
     "None"], hitbox |-> [active |-> FALSE, offset |-> 0, w |-> 5000, h
     |-> 5000], hit_tracking |-> {}, health |-> 20, effects |-> [knockback
     |-> FALSE, kbx |-> 0, kby |-> 0, hit_flash |-> FALSE, flash_elapsed
     |-> 0, invulnerable |-> FALSE, inv_elapsed |-> 0], enemies |->
     <<[health |-> 0, gen |-> 0, alive |-> FALSE, x |-> 0, y |-> 0,
     direction |-> "None", stunned |-> FALSE, stun_elapsed |-> 0,
     knockback |-> FALSE, kbx |-> 0, kby |-> 0, hit_flash |-> FALSE,
     flash_elapsed |-> 0], [health |-> 0, gen |-> 0, alive |-> FALSE, x
     |-> 0, y |-> 0, direction |-> "None", stunned |-> FALSE, stun_elapsed
     |-> 0, knockback |-> FALSE, kbx |-> 0, kby |-> 0, hit_flash |->
     FALSE, flash_elapsed |-> 0], [health |-> 0, gen |-> 0, alive |->
     FALSE, x |-> 0, y |-> 0, direction |-> "None", stunned |-> FALSE,
     stun_elapsed |-> 0, knockback |-> FALSE, kbx |-> 0, kby |-> 0,
     hit_flash |-> FALSE, flash_elapsed |-> 0], [health |-> 0, gen |-> 0,
     alive |-> FALSE, x |-> 0, y |-> 0, direction |-> "None", stunned |->
     FALSE, stun_elapsed |-> 0, knockback |-> FALSE, kbx |-> 0, kby |-> 0,
     hit_flash |-> FALSE, flash_elapsed |-> 0], [health |-> 0, gen |-> 0,
     alive |-> FALSE, x |-> 0, y |-> 0, direction |-> "None", stunned |->
     FALSE, stun_elapsed |-> 0, knockback |-> FALSE, kbx |-> 0, kby |-> 0,
     hit_flash |-> FALSE, flash_elapsed |-> 0], [health |-> 0, gen |-> 0,
     alive |-> FALSE, x |-> 0, y |-> 0, direction |-> "None", stunned |->
     FALSE, stun_elapsed |-> 0, knockback |-> FALSE, kbx |-> 0, kby |-> 0,
     hit_flash |-> FALSE, flash_elapsed |-> 0]>>, game_state |-> [score
     |-> 0, n_enemies |-> 0, timer |-> 160, last_spawn_time |-> 0,
     game_over |-> FALSE, screen |-> FALSE], messages |-> [damage |->
     <<>>, enemy_defeated |-> <<>>, player_defeated |-> 0], commands |->
     <<>>, hist |-> [aerial |-> 1, swing |-> <<>>, health0 |-> 20, queued
     |-> FALSE, jumped |-> FALSE, lethal |-> FALSE, attached |-> {},
     inv_contact |-> FALSE, contacts |-> 0, skipped |-> 0, kb |-> (0 :> [n
     |-> 0, vx |-> 0, vy |-> 0] @@ 1 :> [n |-> 0, vx |-> 0, vy |-> 0] @@ 2
     :> [n |-> 0, vx |-> 0, vy |-> 0] @@ 3 :> [n |-> 0, vx |-> 0, vy |->
     0] @@ 4 :> [n |-> 0, vx |-> 0, vy |-> 0] @@ 5 :> [n |-> 0, vx |-> 0,
     vy |-> 0] @@ 6 :> [n |-> 0, vx |-> 0, vy |-> 0]), punched |-> <<-1,
     -1, -1, -1, -1, -1>>, chain |-> <<>>, since_jump |-> "Jump", defeated
     |-> <<>>]]

\* ArrowUp on ticks 2 and 10, ArrowDown on tick 18; tick 20: the PunchCombo about
\* to end, PunchKickCombo queued
PunchChain ==
    [tick |-> 10, state |-> "PunchCombo", changed |-> [init |-> FALSE, hit
     |-> FALSE, sprite |-> FALSE], anim |-> [elapsed |-> 3, duration |->
     5, just_finished |-> TRUE, index |-> 6, first |-> 1, last |-> 7],
     combo_window |-> [elapsed |-> 24, last_attack |-> "PunchCombo",
     queued_combo |-> "PunchKickCombo"], jump_physics |->
     [has_used_aerial_attack |-> FALSE, velocity_y |-> 0, ground_y |->
     -10000, jump_force |-> 1000], transform |-> [x |-> -20000, y |->
     -10000, direction |-> "None"], hitbox |-> [active |-> TRUE, offset
     |-> 0, w |-> 6000, h |-> 4000], hit_tracking |-> {}, health |-> 20,
     effects |-> [knockback |-> FALSE, kbx |-> 0, kby |-> 0, hit_flash |->
     FALSE, flash_elapsed |-> 0, invulnerable |-> FALSE, inv_elapsed |->
     0], enemies |-> <<[health |-> 0, gen |-> 0, alive |-> FALSE, x |-> 0,
     y |-> 0, direction |-> "None", stunned |-> FALSE, stun_elapsed |-> 0,
     knockback |-> FALSE, kbx |-> 0, kby |-> 0, hit_flash |-> FALSE,
     flash_elapsed |-> 0], [health |-> 0, gen |-> 0, alive |-> FALSE, x
     |-> 0, y |-> 0, direction |-> "None", stunned |-> FALSE, stun_elapsed
     |-> 0, knockback |-> FALSE, kbx |-> 0, kby |-> 0, hit_flash |->
     FALSE, flash_elapsed |-> 0], [health |-> 0, gen |-> 0, alive |->
     FALSE, x |-> 0, y |-> 0, direction |-> "None", stunned |-> FALSE,
     stun_elapsed |-> 0, knockback |-> FALSE, kbx |-> 0, kby |-> 0,
     hit_flash |-> FALSE, flash_elapsed |-> 0], [health |-> 0, gen |-> 0,
     alive |-> FALSE, x |-> 0, y |-> 0, direction |-> "None", stunned |->
     FALSE, stun_elapsed |-> 0, knockback |-> FALSE, kbx |-> 0, kby |-> 0,
     hit_flash |-> FALSE, flash_elapsed |-> 0], [health |-> 0, gen |-> 0,
     alive |-> FALSE, x |-> 0, y |-> 0, direction |-> "None", stunned |->
     FALSE, stun_elapsed |-> 0, knockback |-> FALSE, kbx |-> 0, kby |-> 0,
     hit_flash |-> FALSE, flash_elapsed |-> 0], [health |-> 0, gen |-> 0,
     alive |-> FALSE, x |-> 0, y |-> 0, direction |-> "None", stunned |->
     FALSE, stun_elapsed |-> 0, knockback |-> FALSE, kbx |-> 0, kby |-> 0,
     hit_flash |-> FALSE, flash_elapsed |-> 0]>>, game_state |-> [score
     |-> 0, n_enemies |-> 0, timer |-> 80, last_spawn_time |-> 0,
     game_over |-> FALSE, screen |-> FALSE], messages |-> [damage |->
     <<>>, enemy_defeated |-> <<>>, player_defeated |-> 0], commands |->
     <<>>, hist |-> [aerial |-> 0, swing |-> <<>>, health0 |-> 20, queued
     |-> FALSE, jumped |-> FALSE, lethal |-> FALSE, attached |-> {},
     inv_contact |-> FALSE, contacts |-> 0, skipped |-> 0, kb |-> (0 :> [n
     |-> 0, vx |-> 0, vy |-> 0] @@ 1 :> [n |-> 0, vx |-> 0, vy |-> 0] @@ 2
     :> [n |-> 0, vx |-> 0, vy |-> 0] @@ 3 :> [n |-> 0, vx |-> 0, vy |->
     0] @@ 4 :> [n |-> 0, vx |-> 0, vy |-> 0] @@ 5 :> [n |-> 0, vx |-> 0,
     vy |-> 0] @@ 6 :> [n |-> 0, vx |-> 0, vy |-> 0]), punched |-> <<-1,
     -1, -1, -1, -1, -1>>, chain |-> <<"Punch", "PunchCombo">>, since_jump
     |-> "None", defeated |-> <<>>]]

\* as Overtime, later in the same game; tick 3008: the game over since the timer
\* ran out on tick 2999, the enemies despawned, the Invulnerable of the last
\* contact five ticks from its end
Afterglow ==
    [tick |-> 8, state |-> "Idle", changed |-> [init |-> FALSE, hit |->
     FALSE, sprite |-> FALSE], anim |-> [elapsed |-> 0, duration |-> 12,
     just_finished |-> TRUE, index |-> 17, first |-> 1, last |-> 23],
     combo_window |-> [elapsed |-> 50, last_attack |-> "None",
     queued_combo |-> "None"], jump_physics |-> [has_used_aerial_attack
     |-> FALSE, velocity_y |-> 0, ground_y |-> -10000, jump_force |->
     1000], transform |-> [x |-> 1629706, y |-> -10000, direction |->
     "Right"], hitbox |-> [active |-> FALSE, offset |-> 0, w |-> 0, h |->
     0], hit_tracking |-> {}, health |-> 19, effects |-> [knockback |->
     TRUE, kbx |-> 54423, kby |-> -5549, hit_flash |-> FALSE,
     flash_elapsed |-> 0, invulnerable |-> TRUE, inv_elapsed |-> 80],
     enemies |-> <<[health |-> 0, gen |-> 1, alive |-> FALSE, x |-> 0, y
     |-> 0, direction |-> "None", stunned |-> FALSE, stun_elapsed |-> 0,
     knockback |-> FALSE, kbx |-> 0, kby |-> 0, hit_flash |-> FALSE,
     flash_elapsed |-> 0], [health |-> 0, gen |-> 1, alive |-> FALSE, x
     |-> 0, y |-> 0, direction |-> "None", stunned |-> FALSE, stun_elapsed
     |-> 0, knockback |-> FALSE, kbx |-> 0, kby |-> 0, hit_flash |->
     FALSE, flash_elapsed |-> 0], [health |-> 0, gen |-> 1, alive |->
     FALSE, x |-> 0, y |-> 0, direction |-> "None", stunned |-> FALSE,
     stun_elapsed |-> 0, knockback |-> FALSE, kbx |-> 0, kby |-> 0,
     hit_flash |-> FALSE, flash_elapsed |-> 0], [health |-> 0, gen |-> 1,
     alive |-> FALSE, x |-> 0, y |-> 0, direction |-> "None", stunned |->
     FALSE, stun_elapsed |-> 0, knockback |-> FALSE, kbx |-> 0, kby |-> 0,
     hit_flash |-> FALSE, flash_elapsed |-> 0], [health |-> 0, gen |-> 1,
     alive |-> FALSE, x |-> 0, y |-> 0, direction |-> "None", stunned |->
     FALSE, stun_elapsed |-> 0, knockback |-> FALSE, kbx |-> 0, kby |-> 0,
     hit_flash |-> FALSE, flash_elapsed |-> 0], [health |-> 0, gen |-> 1,
     alive |-> FALSE, x |-> 0, y |-> 0, direction |-> "None", stunned |->
     FALSE, stun_elapsed |-> 0, knockback |-> FALSE, kbx |-> 0, kby |-> 0,
     hit_flash |-> FALSE, flash_elapsed |-> 0]>>, game_state |-> [score
     |-> 0, n_enemies |-> 6, timer |-> 12000, last_spawn_time |-> 1200,
     game_over |-> TRUE, screen |-> TRUE], messages |-> [damage |-> <<>>,
     enemy_defeated |-> <<>>, player_defeated |-> 0], commands |-> <<>>,
     hist |-> [aerial |-> 0, swing |-> <<>>, health0 |-> 19, queued |->
     FALSE, jumped |-> FALSE, lethal |-> FALSE, attached |-> {},
     inv_contact |-> TRUE, contacts |-> 0, skipped |-> 0, kb |-> (0 :> [n
     |-> 21, vx |-> 497411, vy |-> -50756] @@ 1 :> [n |-> 0, vx |-> 0, vy
     |-> 0] @@ 2 :> [n |-> 0, vx |-> 0, vy |-> 0] @@ 3 :> [n |-> 0, vx |->
     0, vy |-> 0] @@ 4 :> [n |-> 0, vx |-> 0, vy |-> 0] @@ 5 :> [n |-> 0,
     vx |-> 0, vy |-> 0] @@ 6 :> [n |-> 0, vx |-> 0, vy |-> 0]), punched
     |-> <<-1, -1, -1, -1, -1, -1>>, chain |-> <<>>, since_jump |->
     "None", defeated |-> <<>>]]

\* as Airborne (Space on tick 0, ArrowUp on tick 1), then no key; tick 42: landed,
\* the Land animation two frames from its end, has_used_aerial_attack still set
Rebound ==
    [tick |-> 8, state |-> "Land", changed |-> [init |-> FALSE, hit |->
     FALSE, sprite |-> FALSE], anim |-> [elapsed |-> 0, duration |-> 2,
     just_finished |-> TRUE, index |-> 18, first |-> 1, last |-> 20],
     combo_window |-> [elapsed |-> 50, last_attack |-> "JumpPunch",
     queued_combo |-> "None"], jump_physics |-> [has_used_aerial_attack
     |-> TRUE, velocity_y |-> 0, ground_y |-> -20000, jump_force |->
     1000], transform |-> [x |-> -20000, y |-> -20000, direction |->
     "None"], hitbox |-> [active |-> FALSE, offset |-> 0, w |-> 5000, h
     |-> 5000], hit_tracking |-> {}, health |-> 20, effects |-> [knockback
     |-> FALSE, kbx |-> 0, kby |-> 0, hit_flash |-> FALSE, flash_elapsed
     |-> 0, invulnerable |-> FALSE, inv_elapsed |-> 0], enemies |->
     <<[health |-> 0, gen |-> 0, alive |-> FALSE, x |-> 0, y |-> 0,
     direction |-> "None", stunned |-> FALSE, stun_elapsed |-> 0,
     knockback |-> FALSE, kbx |-> 0, kby |-> 0, hit_flash |-> FALSE,
     flash_elapsed |-> 0], [health |-> 0, gen |-> 0, alive |-> FALSE, x
     |-> 0, y |-> 0, direction |-> "None", stunned |-> FALSE, stun_elapsed
     |-> 0, knockback |-> FALSE, kbx |-> 0, kby |-> 0, hit_flash |->
     FALSE, flash_elapsed |-> 0], [health |-> 0, gen |-> 0, alive |->
     FALSE, x |-> 0, y |-> 0, direction |-> "None", stunned |-> FALSE,
     stun_elapsed |-> 0, knockback |-> FALSE, kbx |-> 0, kby |-> 0,
     hit_flash |-> FALSE, flash_elapsed |-> 0], [health |-> 0, gen |-> 0,
     alive |-> FALSE, x |-> 0, y |-> 0, direction |-> "None", stunned |->
     FALSE, stun_elapsed |-> 0, knockback |-> FALSE, kbx |-> 0, kby |-> 0,
     hit_flash |-> FALSE, flash_elapsed |-> 0], [health |-> 0, gen |-> 0,
     alive |-> FALSE, x |-> 0, y |-> 0, direction |-> "None", stunned |->
     FALSE, stun_elapsed |-> 0, knockback |-> FALSE, kbx |-> 0, kby |-> 0,
     hit_flash |-> FALSE, flash_elapsed |-> 0], [health |-> 0, gen |-> 0,
     alive |-> FALSE, x |-> 0, y |-> 0, direction |-> "None", stunned |->
     FALSE, stun_elapsed |-> 0, knockback |-> FALSE, kbx |-> 0, kby |-> 0,
     hit_flash |-> FALSE, flash_elapsed |-> 0]>>, game_state |-> [score
     |-> 0, n_enemies |-> 0, timer |-> 168, last_spawn_time |-> 0,
     game_over |-> FALSE, screen |-> FALSE], messages |-> [damage |->
     <<>>, enemy_defeated |-> <<>>, player_defeated |-> 0], commands |->
     <<>>, hist |-> [aerial |-> 1, swing |-> <<>>, health0 |-> 20, queued
     |-> FALSE, jumped |-> FALSE, lethal |-> FALSE, attached |-> {},
     inv_contact |-> FALSE, contacts |-> 0, skipped |-> 0, kb |-> (0 :> [n
     |-> 0, vx |-> 0, vy |-> 0] @@ 1 :> [n |-> 0, vx |-> 0, vy |-> 0] @@ 2
     :> [n |-> 0, vx |-> 0, vy |-> 0] @@ 3 :> [n |-> 0, vx |-> 0, vy |->
     0] @@ 4 :> [n |-> 0, vx |-> 0, vy |-> 0] @@ 5 :> [n |-> 0, vx |-> 0,
     vy |-> 0] @@ 6 :> [n |-> 0, vx |-> 0, vy |-> 0]), punched |-> <<-1,
     -1, -1, -1, -1, -1>>, chain |-> <<>>, since_jump |-> "Land", defeated
     |-> <<>>]]

\* as Overtime, with ArrowUp on tick 2996; tick 2998: a Punch under way, the
\* game timer about to expire in the middle of it
Buzzer ==
    [tick |-> 8, state |-> "Punch", changed |-> [init |-> FALSE, hit |->
     FALSE, sprite |-> FALSE], anim |-> [elapsed |-> 2, duration |-> 3,
     just_finished |-> TRUE, index |-> 3, first |-> 1, last |-> 12],
     combo_window |-> [elapsed |-> 4, last_attack |-> "Punch",
     queued_combo |-> "None"], jump_physics |-> [has_used_aerial_attack
     |-> FALSE, velocity_y |-> 0, ground_y |-> -10000, jump_force |->
     1000], transform |-> [x |-> 1625646, y |-> -10000, direction |->
     "Right"], hitbox |-> [active |-> FALSE, offset |-> 8000, w |-> 6000,
     h |-> 4000], hit_tracking |-> {}, health |-> 19, effects |->
     [knockback |-> TRUE, kbx |-> 156089, kby |-> -15925, hit_flash |->
     FALSE, flash_elapsed |-> 0, invulnerable |-> TRUE, inv_elapsed |->
     40], enemies |-> <<[health |-> 6, gen |-> 1, alive |-> TRUE, x |->
     1608800, y |-> -9000, direction |-> "Right", stunned |-> FALSE,
     stun_elapsed |-> 0, knockback |-> FALSE, kbx |-> 0, kby |-> 0,
     hit_flash |-> FALSE, flash_elapsed |-> 0], [health |-> 6, gen |-> 1,
     alive |-> TRUE, x |-> 1578800, y |-> -9000, direction |-> "Right",
     stunned |-> FALSE, stun_elapsed |-> 0, knockback |-> FALSE, kbx |->
     0, kby |-> 0, hit_flash |-> FALSE, flash_elapsed |-> 0], [health |->
     6, gen |-> 1, alive |-> TRUE, x |-> 1548800, y |-> -9000, direction
     |-> "Right", stunned |-> FALSE, stun_elapsed |-> 0, knockback |->
     FALSE, kbx |-> 0, kby |-> 0, hit_flash |-> FALSE, flash_elapsed |->
     0], [health |-> 6, gen |-> 1, alive |-> TRUE, x |-> 1518800, y |->
     -9000, direction |-> "Right", stunned |-> FALSE, stun_elapsed |-> 0,
     knockback |-> FALSE, kbx |-> 0, kby |-> 0, hit_flash |-> FALSE,
     flash_elapsed |-> 0], [health |-> 6, gen |-> 1, alive |-> TRUE, x |->
     1488800, y |-> -9000, direction |-> "Right", stunned |-> FALSE,
     stun_elapsed |-> 0, knockback |-> FALSE, kbx |-> 0, kby |-> 0,
     hit_flash |-> FALSE, flash_elapsed |-> 0], [health |-> 6, gen |-> 1,
     alive |-> TRUE, x |-> 1458800, y |-> -9000, direction |-> "Right",
     stunned |-> FALSE, stun_elapsed |-> 0, knockback |-> FALSE, kbx |->
     0, kby |-> 0, hit_flash |-> FALSE, flash_elapsed |-> 0]>>, game_state
     |-> [score |-> 0, n_enemies |-> 6, timer |-> 11992, last_spawn_time
     |-> 1200, game_over |-> FALSE, screen |-> FALSE], messages |->
     [damage |-> <<>>, enemy_defeated |-> <<>>, player_defeated |-> 0],
     commands |-> <<>>, hist |-> [aerial |-> 0, swing |-> <<>>, health0
     |-> 19, queued |-> FALSE, jumped |-> FALSE, lethal |-> FALSE,
     attached |-> {}, inv_contact |-> TRUE, contacts |-> 0, skipped |-> 0,
     kb |-> (0 :> [n |-> 11, vx |-> 497411, vy |-> -50756] @@ 1 :> [n |->
     0, vx |-> 0, vy |-> 0] @@ 2 :> [n |-> 0, vx |-> 0, vy |-> 0] @@ 3 :>
     [n |-> 0, vx |-> 0, vy |-> 0] @@ 4 :> [n |-> 0, vx |-> 0, vy |-> 0]
     @@ 5 :> [n |-> 0, vx |-> 0, vy |-> 0] @@ 6 :> [n |-> 0, vx |-> 0, vy
     |-> 0]), punched |-> <<-1, -1, -1, -1, -1, -1>>, chain |->
     <<"Punch">>, since_jump |-> "None", defeated |-> <<>>]]

\* as Overtime, with Space on tick 2995; tick 2998: in Jump, rising, the game
\* timer about to expire in mid-air
LastLeap ==
    [tick |-> 8, state |-> "Jump", changed |-> [init |-> FALSE, hit |->
     FALSE, sprite |-> FALSE], anim |-> [elapsed |-> 2, duration |-> 5,
     just_finished |-> TRUE, index |-> 3, first |-> 1, last |-> 26],
     combo_window |-> [elapsed |-> 50, last_attack |-> "None",
     queued_combo |-> "None"], jump_physics |-> [has_used_aerial_attack
     |-> FALSE, velocity_y |-> 784, ground_y |-> -10000, jump_force |->
     1000], transform |-> [x |-> 1625646, y |-> 37, direction |->
     "Right"], hitbox |-> [active |-> FALSE, offset |-> 0, w |-> 0, h |->
     0], hit_tracking |-> {}, health |-> 19, effects |-> [knockback |->
     TRUE, kbx |-> 156089, kby |-> -15925, hit_flash |-> FALSE,
     flash_elapsed |-> 0, invulnerable |-> TRUE, inv_elapsed |-> 40],
     enemies |-> <<[health |-> 6, gen |-> 1, alive |-> TRUE, x |->
     1608800, y |-> -8400, direction |-> "Right", stunned |-> FALSE,
     stun_elapsed |-> 0, knockback |-> FALSE, kbx |-> 0, kby |-> 0,
     hit_flash |-> FALSE, flash_elapsed |-> 0], [health |-> 6, gen |-> 1,
     alive |-> TRUE, x |-> 1578800, y |-> -8400, direction |-> "Right",
     stunned |-> FALSE, stun_elapsed |-> 0, knockback |-> FALSE, kbx |->
     0, kby |-> 0, hit_flash |-> FALSE, flash_elapsed |-> 0], [health |->
     6, gen |-> 1, alive |-> TRUE, x |-> 1548800, y |-> -8400, direction
     |-> "Right", stunned |-> FALSE, stun_elapsed |-> 0, knockback |->
     FALSE, kbx |-> 0, kby |-> 0, hit_flash |-> FALSE, flash_elapsed |->
     0], [health |-> 6, gen |-> 1, alive |-> TRUE, x |-> 1518800, y |->
     -8400, direction |-> "Right", stunned |-> FALSE, stun_elapsed |-> 0,
     knockback |-> FALSE, kbx |-> 0, kby |-> 0, hit_flash |-> FALSE,
     flash_elapsed |-> 0], [health |-> 6, gen |-> 1, alive |-> TRUE, x |->
     1488800, y |-> -8400, direction |-> "Right", stunned |-> FALSE,
     stun_elapsed |-> 0, knockback |-> FALSE, kbx |-> 0, kby |-> 0,
     hit_flash |-> FALSE, flash_elapsed |-> 0], [health |-> 6, gen |-> 1,
     alive |-> TRUE, x |-> 1458800, y |-> -8400, direction |-> "Right",
     stunned |-> FALSE, stun_elapsed |-> 0, knockback |-> FALSE, kbx |->
     0, kby |-> 0, hit_flash |-> FALSE, flash_elapsed |-> 0]>>, game_state
     |-> [score |-> 0, n_enemies |-> 6, timer |-> 11992, last_spawn_time
     |-> 1200, game_over |-> FALSE, screen |-> FALSE], messages |->
     [damage |-> <<>>, enemy_defeated |-> <<>>, player_defeated |-> 0],
     commands |-> <<>>, hist |-> [aerial |-> 0, swing |-> <<>>, health0
     |-> 19, queued |-> FALSE, jumped |-> FALSE, lethal |-> FALSE,
     attached |-> {}, inv_contact |-> TRUE, contacts |-> 0, skipped |-> 0,
     kb |-> (0 :> [n |-> 11, vx |-> 497411, vy |-> -50756] @@ 1 :> [n |->
     0, vx |-> 0, vy |-> 0] @@ 2 :> [n |-> 0, vx |-> 0, vy |-> 0] @@ 3 :>
     [n |-> 0, vx |-> 0, vy |-> 0] @@ 4 :> [n |-> 0, vx |-> 0, vy |-> 0]
     @@ 5 :> [n |-> 0, vx |-> 0, vy |-> 0] @@ 6 :> [n |-> 0, vx |-> 0, vy
     |-> 0]), punched |-> <<-1, -1, -1, -1, -1, -1>>, chain |-> <<>>,
     since_jump |-> "Jump", defeated |-> <<>>]]

\* as LastStand, then ArrowUp on tick 769; tick 772: a Punch under way, health 1,
\* the lethal contact five ticks away
Doomed ==
    [tick |-> 8, state |-> "Punch", changed |-> [init |-> FALSE, hit |->
     FALSE, sprite |-> FALSE], anim |-> [elapsed |-> 0, duration |-> 3,
     just_finished |-> TRUE, index |-> 4, first |-> 1, last |-> 12],
     combo_window |-> [elapsed |-> 8, last_attack |-> "Punch",
     queued_combo |-> "None"], jump_physics |-> [has_used_aerial_attack
     |-> FALSE, velocity_y |-> 0, ground_y |-> -10000, jump_force |->
     1000], transform |-> [x |-> -135390, y |-> -10000, direction |->
     "Left"], hitbox |-> [active |-> FALSE, offset |-> -8000, w |-> 6000,
     h |-> 4000], hit_tracking |-> {}, health |-> 1, effects |->
     [knockback |-> TRUE, kbx |-> -28915, kby |-> -2988, hit_flash |->
     FALSE, flash_elapsed |-> 0, invulnerable |-> FALSE, inv_elapsed |->
     0], enemies |-> <<[health |-> 6, gen |-> 1, alive |-> TRUE, x |->
     -119200, y |-> -9000, direction |-> "Left", stunned |-> FALSE,
     stun_elapsed |-> 0, knockback |-> FALSE, kbx |-> 0, kby |-> 0,
     hit_flash |-> FALSE, flash_elapsed |-> 0], [health |-> 6, gen |-> 1,
     alive |-> TRUE, x |-> -119600, y |-> -9000, direction |-> "Left",
     stunned |-> FALSE, stun_elapsed |-> 0, knockback |-> FALSE, kbx |->
     0, kby |-> 0, hit_flash |-> FALSE, flash_elapsed |-> 0], [health |->
     6, gen |-> 1, alive |-> TRUE, x |-> -119200, y |-> -9000, direction
     |-> "Left", stunned |-> FALSE, stun_elapsed |-> 0, knockback |->
     FALSE, kbx |-> 0, kby |-> 0, hit_flash |-> FALSE, flash_elapsed |->
     0], [health |-> 6, gen |-> 1, alive |-> TRUE, x |-> -118400, y |->
     -9000, direction |-> "Left", stunned |-> FALSE, stun_elapsed |-> 0,
     knockback |-> FALSE, kbx |-> 0, kby |-> 0, hit_flash |-> FALSE,
     flash_elapsed |-> 0], [health |-> 6, gen |-> 1, alive |-> TRUE, x |->
     -121600, y |-> -9000, direction |-> "Left", stunned |-> FALSE,
     stun_elapsed |-> 0, knockback |-> FALSE, kbx |-> 0, kby |-> 0,
     hit_flash |-> FALSE, flash_elapsed |-> 0], [health |-> 6, gen |-> 1,
     alive |-> TRUE, x |-> -123200, y |-> -9000, direction |-> "Left",
     stunned |-> FALSE, stun_elapsed |-> 0, knockback |-> FALSE, kbx |->
     0, kby |-> 0, hit_flash |-> FALSE, flash_elapsed |-> 0]>>, game_state
     |-> [score |-> 0, n_enemies |-> 6, timer |-> 3088, last_spawn_time
     |-> 1200, game_over |-> FALSE, screen |-> FALSE], messages |->
     [damage |-> <<>>, enemy_defeated |-> <<>>, player_defeated |-> 0],
     commands |-> <<>>, hist |-> [aerial |-> 0, swing |-> <<>>, health0
     |-> 1, queued |-> FALSE, jumped |-> FALSE, lethal |-> FALSE, attached
     |-> {}, inv_contact |-> FALSE, contacts |-> 0, skipped |-> 0, kb |->
     (0 :> [n |-> 27, vx |-> -497325, vy |-> -51440] @@ 1 :> [n |-> 0, vx
     |-> 0, vy |-> 0] @@ 2 :> [n |-> 0, vx |-> 0, vy |-> 0] @@ 3 :> [n |->
     0, vx |-> 0, vy |-> 0] @@ 4 :> [n |-> 0, vx |-> 0, vy |-> 0] @@ 5 :>
     [n |-> 0, vx |-> 0, vy |-> 0] @@ 6 :> [n |-> 0, vx |-> 0, vy |-> 0]),
     punched |-> <<-1, -1, -1, -1, -1, -1>>, chain |-> <<"Punch">>,
     since_jump |-> "None", defeated |-> <<>>]]

Scenarios == { Approach, Cluster, LastStand, Airborne, Overtime,
      Defeated, Rising, Surrounded, Crowded, Pincer,
      Reprise, Sunk, KickChain, Recoil, Ebb,
      Spent, Touchdown, PunchChain, Afterglow, Rebound,
      Buzzer, LastLeap, Doomed }
\* END snapshots

\* the program at the start of a tick, its components as in r
Snapshot(r) ==
    /\ pc = "tick"
    /\ tick = r.tick
    /\ presses = 0
    /\ input = NoInput
    /\ state = r.state
    /\ changed = r.changed
    /\ anim = r.anim
    /\ combo_window = r.combo_window
    /\ jump_physics = r.jump_physics
    /\ transform = r.transform
    /\ hitbox = r.hitbox
    /\ hit_tracking = r.hit_tracking
    /\ health = r.health
    /\ effects = r.effects
    /\ enemies = r.enemies
    /\ game_state = r.game_state
    /\ messages = r.messages
    /\ commands = r.commands
    /\ hist = r.hist

Init == setup \/ \E r \in Scenarios : Snapshot(r)

---------------------------------------------------------------------------
(* The environment: the keyboard snapshot of a tick *)

\* the keys of the frame: one of Inputs, at most MaxPresses frames with a key
PollKeyboard ==
    /\ pc = "tick"
    /\ \E in \in Inputs :
         /\ in # NoInput => presses < MaxPresses
         /\ input' = in
         /\ presses' = IF in # NoInput THEN presses + 1 ELSE presses
    /\ pc' = "input"
    /\ hist' = [hist EXCEPT !.health0 = health, !.queued = FALSE,
                             !.jumped = FALSE, !.lethal = FALSE,
                             !.attached = {}, !.inv_contact = FALSE,
                             !.contacts = 0, !.skipped = 0,
                             !.punched = [s \in Slots |->
                                 IF \/ ~enemies[s].alive
                                    \/ enemies[s].health = ENEMY_MAX_HEALTH
                                    \/ hist.punched[s] < 0
                                 THEN -1 ELSE hist.punched[s] + Dt]]
    /\ UNCHANGED << tick, state, changed, anim, combo_window, jump_physics,
                    transform, hitbox, hit_tracking, health, effects, enemies,
                    game_state, messages, commands >>

BeginTick ==
    /\ tick < MaxTicks
    /\ PollKeyboard

---------------------------------------------------------------------------
(* Phase 1: input and state management, src/src/player/systems.rs *)

\* writing *state marks the component changed for every filtered system
Touched == [init |-> TRUE, hit |-> TRUE, sprite |-> TRUE]

\* history: entries into Jump and into the aerial attacks, the swing, the
\* chain of ground attacks, the last of Jump and Land entered
HistOnEnter(h, new) ==
    [h EXCEPT !.aerial = IF new = "Jump" THEN 0
                         ELSE IF new \in { "JumpPunch", "JumpKick" }
                              THEN h.aerial + 1 ELSE h.aerial,
              !.swing = << >>,
              !.chain = IF new \in { "Punch", "PunchCombo", "Kick", "KickCombo",
                                     "PunchKickCombo" }
                        THEN Append(h.chain, new) ELSE << >>,
              !.since_jump = IF new \in { "Jump", "Land" } THEN new
                             ELSE h.since_jump]

\* the InputContext built from the keyboard state in
InputContextOf(in) ==
    [left |-> in.left, right |-> in.right, shift |-> in.shift,
     space |-> in.space, up_arrow |-> in.up_arrow,
     down_arrow |-> in.down_arrow,
     has_used_aerial_attack |-> jump_physics.has_used_aerial_attack,
     current_frame |-> anim.index, total_frames |-> anim.last + 1]

InputContext == InputContextOf(input)

\* the transition the input phase acts on for the keyboard state in, given
\* the ticked combo timer
InputTransitionOf(in, elapsed) ==
    IF locks_input(state)
       /\ (IF in.up_arrow \/ in.down_arrow
           THEN IsFinished(elapsed, COMBO_DURATION) ELSE TRUE)
    THEN TransNone
    ELSE handle_input(state, InputContextOf(in))

InputTransition(elapsed) == InputTransitionOf(input, elapsed)

\* a player query that never comes back empty
HasPlayer_always == TRUE

\* the queries for the player entity find it: it carries a PlayerState
HasPlayer == state # None

\* an input phase that runs on after the game is over
InputFrozen_never == FALSE

\* "Freeze input when game is over"
InputFrozen == game_state.game_over

player_input_system ==
    /\ pc = "input"
    /\ pc' = "init_jump"
    /\ IF InputFrozen \/ ~HasPlayer
       THEN UNCHANGED << state, changed, combo_window, hist >>
       ELSE LET elapsed == TickOnce(combo_window.elapsed, COMBO_DURATION, Dt)
                tr == InputTransition(elapsed)
            IN CASE tr.kind = "To" ->
                      /\ state' = tr.to
                      /\ changed' = Touched
                      /\ combo_window' =
                           IF is_attacking(tr.to)
                           THEN [combo_window EXCEPT !.last_attack = tr.to,
                                                     !.elapsed = 0]
                           ELSE [combo_window EXCEPT !.elapsed = elapsed]
                      /\ hist' = [HistOnEnter(hist, tr.to) EXCEPT
                                    !.jumped = (tr.to = "Jump")]
                 [] tr.kind = "QueueCombo" ->
                      /\ combo_window' =
                           IF ~IsFinished(elapsed, COMBO_DURATION)
                           THEN [combo_window EXCEPT !.elapsed = elapsed,
                                                     !.queued_combo = tr.to]
                           ELSE [combo_window EXCEPT !.elapsed = elapsed]
                      /\ hist' = [hist EXCEPT !.queued =
                                    ~IsFinished(elapsed, COMBO_DURATION)]
                      /\ UNCHANGED << state, changed >>
                 [] OTHER ->
                      /\ combo_window' = [combo_window EXCEPT !.elapsed = elapsed]
                      /\ UNCHANGED << state, changed, hist >>
    /\ UNCHANGED << tick, presses, input, anim, jump_physics, transform, hitbox,
                    hit_tracking, health, effects, enemies, game_state,
                    messages, commands >>

\* entering Jump with the ground captured but the velocity left as it was
JumpInit_keeps_velocity(jp, y) ==
    [jp EXCEPT !.ground_y = y, !.has_used_aerial_attack = FALSE]

\* the PlayerState::Jump arm of initialize_jump_physics
JumpInit(jp, y) ==
    [jp EXCEPT !.ground_y = y,
               !.velocity_y = jp.jump_force,
               !.has_used_aerial_attack = FALSE]

\* the aerial attack entered without a mark on the jump
AerialUsed_unmarked(jp) == jp

\* the JumpPunch | JumpKick arm of initialize_jump_physics
AerialUsed(jp) == [jp EXCEPT !.has_used_aerial_attack = TRUE]

initialize_jump_physics ==
    /\ pc = "init_jump"
    /\ pc' = "clear_hit"
    /\ changed' = [changed EXCEPT !.init = FALSE]
    /\ jump_physics' =
         IF ~changed.init THEN jump_physics
         ELSE CASE state = "Jump" -> JumpInit(jump_physics, transform.y)
                [] state = "Fall" ->
                     [jump_physics EXCEPT !.velocity_y = 0]
                [] state \in { "JumpPunch", "JumpKick" } -> AerialUsed(jump_physics)
                [] OTHER -> jump_physics
    /\ UNCHANGED << tick, presses, input, state, anim, combo_window, transform,
                    hitbox, hit_tracking, health, effects, enemies, game_state,
                    messages, commands, hist >>

\* HitTracking never cleared
Cleared_never(s, tracked) == tracked

\* "if state.is_attacking() { hit_tracking.hit_enemies.clear(); }"
Cleared(s, tracked) == IF is_attacking(s) THEN {} ELSE tracked

clear_hit_tracking_on_state_change ==
    /\ pc = "clear_hit"
    /\ pc' = "state_update"
    /\ changed' = [changed EXCEPT !.hit = FALSE]
    /\ hit_tracking' = IF changed.hit THEN Cleared(state, hit_tracking)
                       ELSE hit_tracking
    /\ UNCHANGED << tick, presses, input, state, anim, combo_window, jump_physics,
                    transform, hitbox, health, effects, enemies, game_state,
                    messages, commands, hist >>

\* atlas.index == indices.last && timer.just_finished()
animation_finished == anim.index = anim.last /\ anim.just_finished

UpdateContext ==
    [animation_finished |-> animation_finished,
     is_at_ground |-> transform.y <= jump_physics.ground_y + GROUND_TOLERANCE,
     velocity_y |-> jump_physics.velocity_y]

\* the queued combo left in place (clone() for take())
ConsumeComboKeep(cw) ==
    [cw EXCEPT !.last_attack = cw.queued_combo, !.elapsed = 0]

\* the queued combo taken and the timer reset, last_attack left as it was
ConsumeCombo_unrecorded(cw) ==
    [cw EXCEPT !.queued_combo = None, !.elapsed = 0]

\* queued_combo.take(), last_attack = Some(combo), timer.reset()
ConsumeCombo(cw) ==
    [cw EXCEPT !.queued_combo = None, !.last_attack = cw.queued_combo,
               !.elapsed = 0]

player_state_update_system ==
    /\ pc = "state_update"
    /\ pc' = "sprite_update"
    /\ LET tr == update(state, UpdateContext)
       IN IF tr.kind = "To"
          THEN IF animation_finished /\ combo_window.queued_combo # None
               THEN /\ state' = combo_window.queued_combo
                    /\ combo_window' = ConsumeCombo(combo_window)
                    /\ changed' = Touched
                    /\ hist' = HistOnEnter(hist, combo_window.queued_combo)
               ELSE /\ state' = tr.to
                    /\ changed' = Touched
                    /\ hist' = HistOnEnter(hist, tr.to)
                    /\ UNCHANGED combo_window
          ELSE UNCHANGED << state, changed, combo_window, hist >>
    /\ UNCHANGED << tick, presses, input, anim, jump_physics, transform, hitbox,
                    hit_tracking, health, effects, enemies, game_state,
                    messages, commands >>

player_sprite_update_system ==
    /\ pc = "sprite_update"
    /\ pc' = "physics"
    /\ changed' = [changed EXCEPT !.sprite = FALSE]
    /\ anim' = IF changed.sprite
               THEN [index |-> first_frame(state), first |-> first_frame(state),
                     last |-> last_frame(state),
                     duration |-> frame_duration(state), elapsed |-> 0,
                     just_finished |-> FALSE]
               ELSE anim
    /\ UNCHANGED << tick, presses, input, state, combo_window, jump_physics,
                    transform, hitbox, hit_tracking, health, effects, enemies,
                    game_state, messages, commands, hist >>

---------------------------------------------------------------------------
(* Phase 2: movement *)

\* the A / D steering of player_physics_system at the given speed (px/s)
Steer(t, speed) ==
    IF input.left
    THEN [t EXCEPT !.x = t.x - speed * Dt, !.direction = "Left"]
    ELSE IF input.right
    THEN [t EXCEPT !.x = t.x + speed * Dt, !.direction = "Right"]
    ELSE t

\* a clamp left to the gravity branch alone
BelowGround_never(y, ground) == FALSE

\* "Always enforce ground clamping (even when gravity is not active)"
BelowGround(y, ground) == y < ground

player_physics_system ==
    /\ pc = "physics"
    /\ pc' = "hitboxes"
    /\ LET ground == jump_physics.ground_y
           v1 == jump_physics.velocity_y - (GRAVITY * Dt) \div 100
           y1 == transform.y + v1 * Dt
           \* gravity and the first ground clamp
           vg == IF apply_gravity(state)
                 THEN (IF y1 < ground THEN 0 ELSE v1)
                 ELSE jump_physics.velocity_y
           yg == IF apply_gravity(state)
                 THEN (IF y1 < ground THEN ground ELSE y1)
                 ELSE transform.y
           t0 == [transform EXCEPT !.y = yg]
           t1 == IF air_control(state) THEN Steer(t0, AIR_CONTROL_SPEED) ELSE t0
           t2 == IF ~locks_movement(state) /\ ground_speed(state) > 0
                 THEN Steer(t1, ground_speed(state)) ELSE t1
       IN \* the unconditional ground clamp
          IF BelowGround(t2.y, ground)
          THEN /\ transform' = [t2 EXCEPT !.y = ground]
               /\ jump_physics' = [jump_physics EXCEPT !.velocity_y = 0]
          ELSE /\ transform' = t2
               /\ jump_physics' = [jump_physics EXCEPT !.velocity_y = vg]
    /\ UNCHANGED << tick, presses, input, state, changed, anim, combo_window,
                    hitbox, hit_tracking, health, effects, enemies, game_state,
                    messages, commands, hist >>

---------------------------------------------------------------------------
(* Phase 3: combat and collision, src/src/main.rs *)

HitboxWidth(s) ==
    CASE s \in { "Punch", "PunchCombo" } -> 6000
      [] s \in { "Kick", "KickCombo", "PunchKickCombo" } -> 8000
      [] s = "JumpPunch" -> 5000
      [] s = "JumpKick" -> 7000
      [] OTHER -> 0

HitboxHeight(s) ==
    CASE s \in { "Punch", "PunchCombo" } -> 4000
      [] s \in { "Kick", "KickCombo", "PunchKickCombo" } -> 5000
      [] s = "JumpPunch" -> 5000
      [] s = "JumpKick" -> 6000
      [] OTHER -> 0

\* a hit volume active for the whole swing
HitWindow_whole_swing(frame, first, last) == TRUE

\* the middle third of the attack animation
HitWindow(frame, first, last) ==
    LET total_frames == last - first
        mid_start == first + (total_frames \div 3)
        mid_end == first + ((2 * total_frames) \div 3)
    IN frame >= mid_start /\ frame <= mid_end

update_attack_hitboxes ==
    /\ pc = "hitboxes"
    /\ pc' = "combat_collisions"
    /\ hitbox' =
         IF ~is_attacking(state)
         THEN [hitbox EXCEPT !.active = FALSE]
         ELSE [active |-> HitWindow(anim.index, anim.first, anim.last),
               offset |-> CASE transform.direction = "Right" -> HITBOX_OFFSET
                            [] transform.direction = "Left" -> -HITBOX_OFFSET
                            [] OTHER -> 0,
               w |-> HitboxWidth(state),
               h |-> HitboxHeight(state)]
    /\ UNCHANGED << tick, presses, input, state, changed, anim, combo_window,
                    jump_physics, transform, hit_tracking, health, effects,
                    enemies, game_state, messages, commands, hist >>

\* axis-aligned boxes given by centre and size
aabb_collision(x1, y1, w1, h1, x2, y2, w2, h2) ==
    /\ x1 - w1 \div 2 < x2 + w2 \div 2
    /\ x1 + w1 \div 2 > x2 - w2 \div 2
    /\ y1 - h1 \div 2 < y2 + h2 \div 2
    /\ y1 + h1 \div 2 > y2 - h2 \div 2

\* the enemies the active hitbox newly strikes in this tick
\* the enemy's hurt volume overlaps the player's hit volume
Overlaps(s) ==
    aabb_collision(transform.x + hitbox.offset, transform.y,
                   hitbox.w, hitbox.h,
                   enemies[s].x, enemies[s].y, ENEMY_HURT_W, ENEMY_HURT_H)

\* hit_enemies not consulted
StruckUntracked == { s \in Alive : Overlaps(s) }

\* the enemies the active hit volume strikes in this tick
Struck == { s \in Alive : EntityId(s) \notin hit_tracking /\ Overlaps(s) }

\* the elements of a set of slots in query (slot) order
RECURSIVE InOrder(_)
InOrder(S) ==
    IF S = {} THEN << >>
    ELSE LET m == CHOOSE x \in S : \A y \in S : x <= y
         IN << m >> \o InOrder(S \ { m })

RECURSIVE PlayerHits(_, _)
PlayerHits(slots, dmg) ==
    IF slots = << >> THEN << >>
    ELSE << [attacker |-> PlayerId, target |-> EntityId(Head(slots)),
             damage |-> dmg] >> \o PlayerHits(Tail(slots), dmg)

RECURSIVE Targets(_)
Targets(evs) ==
    IF evs = << >> THEN << >>
    ELSE << Head(evs).target >> \o Targets(Tail(evs))

detect_combat_collisions ==
    /\ pc = "combat_collisions"
    /\ pc' = "contact_collisions"
    /\ IF ~hitbox.active
       THEN UNCHANGED << hit_tracking, messages, hist >>
       ELSE LET evs == PlayerHits(InOrder(Struck), get_damage(state))
            IN /\ hit_tracking' = hit_tracking \cup { EntityId(s) : s \in Struck }
               /\ messages' = [messages EXCEPT !.damage = @ \o evs]
               /\ hist' = [hist EXCEPT !.swing = @ \o Targets(evs)]
    /\ UNCHANGED << tick, presses, input, state, changed, anim, combo_window,
                    jump_physics, transform, hitbox, health, effects, enemies,
                    game_state, commands >>

\* player_pos.distance(enemy_pos) < 100.0
InContact(px, py, ex, ey) ==
    /\ Abs(px - ex) < CONTACT_DISTANCE
    /\ Abs(py - ey) < CONTACT_DISTANCE
    /\ (px - ex) * (px - ex) + (py - ey) * (py - ey)
         < CONTACT_DISTANCE * CONTACT_DISTANCE

\* the enemies that deal contact damage in this tick
Touching ==
    { s \in Alive :
        /\ ~enemies[s].stunned
        /\ InContact(transform.x, transform.y, enemies[s].x, enemies[s].y) }

\* one contact event a tick, whatever the number of enemies in contact
EnemyHits_one_per_tick(slots) ==
    IF slots = << >> THEN << >>
    ELSE << [attacker |-> EntityId(Head(slots)), target |-> PlayerId,
             damage |-> CONTACT_DAMAGE] >>

RECURSIVE EnemyHits(_)
EnemyHits(slots) ==
    IF slots = << >> THEN << >>
    ELSE << [attacker |-> EntityId(Head(slots)), target |-> PlayerId,
             damage |-> CONTACT_DAMAGE] >> \o EnemyHits(Tail(slots))

detect_player_enemy_collisions ==
    /\ pc = "contact_collisions"
    /\ pc' = "damage"
    /\ messages' =
         IF effects.invulnerable THEN messages
         ELSE [messages EXCEPT !.damage = @ \o EnemyHits(InOrder(Touching))]
    /\ hist' = [hist EXCEPT !.inv_contact = effects.invulnerable,
                             !.contacts = Len(messages'.damage)
                                            - Len(messages.damage)]
    /\ UNCHANGED << tick, presses, input, state, changed, anim, combo_window,
                    jump_physics, transform, hitbox, hit_tracking, health,
                    effects, enemies, game_state, commands >>

---------------------------------------------------------------------------
(* Phase 4: damage resolution *)

RECURSIVE SqrtIn(_, _, _)
SqrtIn(n, lo, hi) ==
    IF lo >= hi THEN lo
    ELSE LET mid == (lo + hi + 1) \div 2
         IN IF mid * mid <= n THEN SqrtIn(n, mid, hi) ELSE SqrtIn(n, lo, mid - 1)

\* floor of the square root of n < 2^31
ISqrt(n) == SqrtIn(n, 0, 46340)

Cmd(op, target, a, b) == [op |-> op, target |-> target, a |-> a, b |-> b]

\* (target - attacker).normalize() * magnitude (px/s): the x and y
\* components, in 0.001 px/s
KnockbackVelocity(ax, ay, az, tx, ty, tz, magnitude) ==
    LET dx == tx - ax
        dy == ty - ay
        dz == tz - az
        len == ISqrt(dx * dx + dy * dy + dz * dz)
        scaled(d) == LET p == Abs(d) * magnitude
                     IN Sgn(d) * ((p \div len) * 1000
                                  + ((p % len) * 1000) \div len)
    IN << scaled(dx), scaled(dy) >>

\* a target counted as defeated only once its health is below zero
HealthBelowZero(hp) == hp < 0

\* "if health.current <= 0"
HealthDepleted(hp) == hp <= 0

\* the entity exists in the world en: the queries by its id succeed
Exists(en, id) == IF id = PlayerId THEN HasPlayer ELSE SlotOf(en, id) # 0

\* transform_query.get(id) of an existing entity: its translation
PositionOf(en, id) ==
    IF id = PlayerId THEN << transform.x, transform.y, PLAYER_Z >>
    ELSE << en[SlotOf(en, id)].x, en[SlotOf(en, id)].y, ENEMY_Z >>

\* knockback_dir * magnitude: from attacker to target, Vec2::ZERO when one
\* of the two Transforms cannot be looked up
KnockbackOf(en, attacker, target, magnitude) ==
    IF Exists(en, attacker) /\ Exists(en, target)
    THEN LET a == PositionOf(en, attacker)
             t == PositionOf(en, target)
         IN KnockbackVelocity(a[1], a[2], a[3], t[1], t[2], t[3], magnitude)
    ELSE << 0, 0 >>

\* one DamageEvent applied to w = [hp, en, cmds, msgs]
ApplyDamage(w, ev) ==
    IF ev.target = PlayerId
    THEN IF ~HasPlayer THEN w ELSE
         LET hp == w.hp - ev.damage
             kb == KnockbackOf(w.en, ev.attacker, ev.target, PLAYER_KNOCKBACK)
         IN IF HealthDepleted(hp)
            THEN [w EXCEPT !.hp = hp,
                           !.msgs.player_defeated = @ + 1]
            ELSE [w EXCEPT !.hp = hp,
                           !.cmds = Append(@, Cmd("insert_hit", PlayerId,
                                                  kb[1], kb[2]))]
    ELSE LET t == SlotOf(w.en, ev.target)
         IN IF t = 0 THEN w
            ELSE LET hp == w.en[t].health - ev.damage
                     kb == KnockbackOf(w.en, ev.attacker, ev.target,
                                       ENEMY_KNOCKBACK)
                 IN IF HealthDepleted(hp)
                    THEN [w EXCEPT !.en[t].health = hp,
                                   !.msgs.enemy_defeated = Append(@, ev.target)]
                    ELSE [w EXCEPT !.en[t].health = hp,
                                   !.cmds = Append(@, Cmd("insert_hit", ev.target,
                                                          kb[1], kb[2]))]

RECURSIVE ApplyDamages(_, _)
ApplyDamages(w, evs) ==
    IF evs = << >> THEN w
    ELSE ApplyDamages(ApplyDamage(w, Head(evs)), Tail(evs))

\* a reader whose cursor stays where it was: the events are read again
DamageEventsRead_again(msgs) == msgs

\* MessageReader<DamageEvent>::read(): the cursor moves past every event
DamageEventsRead(msgs) == [msgs EXCEPT !.damage = << >>]

handle_damage_events ==
    /\ pc = "damage"
    /\ pc' = "invulnerability"
    /\ LET w == ApplyDamages([hp |-> health, en |-> enemies, cmds |-> commands,
                              msgs |-> DamageEventsRead(messages)],
                             messages.damage)
       IN /\ health' = w.hp
          /\ enemies' = w.en
          /\ commands' = w.cmds
          /\ messages' = w.msgs
          /\ hist' = [hist EXCEPT
                        !.lethal = w.msgs.player_defeated > 0,
                        !.skipped = Cardinality(
                            { i \in 1 .. Len(messages.damage) :
                                ~Exists(enemies, messages.damage[i].target) }),
                        !.attached = { w.cmds[i].target :
                                         i \in Len(commands) + 1 .. Len(w.cmds) },
                        !.defeated = @ \o SubSeq(w.msgs.enemy_defeated,
                                         Len(messages.enemy_defeated) + 1,
                                         Len(w.msgs.enemy_defeated)),
                        !.punched = [s \in Slots |->
                            IF /\ state = "Punch"
                               /\ enemies[s].alive
                               /\ enemies[s].health = ENEMY_MAX_HEALTH
                               /\ w.en[s].health < ENEMY_MAX_HEALTH
                            THEN 0 ELSE hist.punched[s]]]
    /\ UNCHANGED << tick, presses, input, state, changed, anim, combo_window,
                    jump_physics, transform, hitbox, hit_tracking, effects,
                    game_state >>

\* runs before the first synchronisation point of the tick
update_invulnerability ==
    /\ pc = "invulnerability"
    /\ pc' = "sync1"
    /\ IF effects.invulnerable
       THEN LET e == TickOnce(effects.inv_elapsed, INVULNERABLE_DURATION, Dt)
            IN /\ effects' = [effects EXCEPT !.inv_elapsed = e]
               /\ commands' =
                    IF IsFinished(e, INVULNERABLE_DURATION)
                    THEN Append(commands, Cmd("remove_invulnerable", PlayerId, 0, 0))
                    ELSE commands
       ELSE UNCHANGED << effects, commands >>
    /\ UNCHANGED << tick, presses, input, state, changed, anim, combo_window,
                    jump_physics, transform, hitbox, hit_tracking, health,
                    enemies, game_state, messages, hist >>

---------------------------------------------------------------------------
(* Deferred commands *)

\* one command applied to w = [en, ef, screen]
\* hit effects inserted next to the ones already there: a running stun timer
\* runs on, the knockback velocities add up
InsertHit_stacking(e, a, b) ==
    [e EXCEPT !.stunned = TRUE,
              !.stun_elapsed = IF e.stunned THEN @ ELSE 0,
              !.knockback = TRUE,
              !.kbx = @ + a, !.kby = @ + b,
              !.hit_flash = TRUE, !.flash_elapsed = 0]

\* commands.entity(target).insert((Stunned, Knockback, HitFlash)) on enemy e:
\* each component replaces the one of its type
InsertHit(e, a, b) ==
    [e EXCEPT !.stunned = TRUE, !.stun_elapsed = 0,
              !.knockback = TRUE, !.kbx = a, !.kby = b,
              !.hit_flash = TRUE, !.flash_elapsed = 0]

ApplyCommand(w, c) ==
    LET t == SlotOf(w.en, c.target)
    IN CASE c.op = "insert_hit" /\ c.target = PlayerId ->
              [w EXCEPT !.ef = [@ EXCEPT !.invulnerable = TRUE, !.inv_elapsed = 0,
                                         !.knockback = TRUE,
                                         !.kbx = c.a, !.kby = c.b,
                                         !.hit_flash = TRUE, !.flash_elapsed = 0]]
         [] c.op = "insert_hit" /\ c.target # PlayerId /\ t # 0 ->
              [w EXCEPT !.en[t] = InsertHit(@, c.a, c.b)]
         [] c.op = "remove_invulnerable" ->
              [w EXCEPT !.ef = [@ EXCEPT !.invulnerable = FALSE, !.inv_elapsed = 0]]
         [] c.op = "remove_stunned" /\ t # 0 ->
              [w EXCEPT !.en[t] = [@ EXCEPT !.stunned = FALSE, !.stun_elapsed = 0]]
         [] c.op = "remove_knockback" /\ c.target = PlayerId ->
              [w EXCEPT !.ef = [@ EXCEPT !.knockback = FALSE, !.kbx = 0, !.kby = 0]]
         [] c.op = "remove_knockback" /\ c.target # PlayerId /\ t # 0 ->
              [w EXCEPT !.en[t] = [@ EXCEPT !.knockback = FALSE,
                                            !.kbx = 0, !.kby = 0]]
         [] c.op = "remove_hit_flash" /\ c.target = PlayerId ->
              [w EXCEPT !.ef = [@ EXCEPT !.hit_flash = FALSE, !.flash_elapsed = 0]]
         [] c.op = "remove_hit_flash" /\ c.target # PlayerId /\ t # 0 ->
              [w EXCEPT !.en[t] = [@ EXCEPT !.hit_flash = FALSE,
                                            !.flash_elapsed = 0]]
         [] c.op = "despawn" /\ t # 0 ->
              [w EXCEPT !.en[t] = NoEnemy(w.en[t].gen)]
         [] c.op = "spawn" ->
              [w EXCEPT !.en[c.target[1]] =
                          NewEnemy(c.target[2], c.a,
                                   IF c.b > 0 THEN "Right" ELSE "Left")]
         [] c.op = "spawn_screen" -> [w EXCEPT !.screen = TRUE]
         [] c.op = "despawn_screen" -> [w EXCEPT !.screen = FALSE]
         [] OTHER -> w

RECURSIVE ApplyCommands(_, _)
ApplyCommands(w, cs) ==
    IF cs = << >> THEN w
    ELSE ApplyCommands(ApplyCommand(w, Head(cs)), Tail(cs))

SyncPoints ==
    { "sync1", "sync2", "sync3", "sync4", "sync5", "sync6", "sync_final" }

\* a schedule whose first synchronisation point is followed by the defeat
\* handlers at once, the stun timers not run
AfterSync_past_stun_timers(p) ==
    CASE p = "sync1" -> "enemy_defeat"
      [] p = "sync2" -> "player_defeat"
      [] p = "sync3" -> "hit_flash"
      [] p = "sync4" -> "animate"
      [] p = "sync5" -> "game_over"
      [] p = "sync6" -> "restart"
      [] p = "sync_final" -> "tick"

AfterSync(p) ==
    CASE p = "sync1" -> "stun_timers"
      [] p = "sync2" -> "player_defeat"
      [] p = "sync3" -> "hit_flash"
      [] p = "sync4" -> "animate"
      [] p = "sync5" -> "game_over"
      [] p = "sync6" -> "restart"
      [] p = "sync_final" -> "tick"

\* ApplyDeferred: the queued commands take effect, in the order queued
apply_deferred ==
    /\ pc \in SyncPoints
    /\ pc' = AfterSync(pc)
    /\ LET w == ApplyCommands([en |-> enemies, ef |-> effects,
                               screen |-> game_state.screen], commands)
       IN /\ enemies' = w.en
          /\ effects' = w.ef
          /\ game_state' = [game_state EXCEPT !.screen = w.screen]
    /\ commands' = << >>
    /\ tick' = IF pc = "sync_final" THEN tick + 1 ELSE tick
    /\ input' = IF pc = "sync_final" THEN NoInput ELSE input
    /\ hist' = [hist EXCEPT !.kb = [k \in 0 .. MAX_ENEMIES |->
                   LET id == IF k = 0 THEN PlayerId ELSE EntityId(k)
                       ins == { i \in 1 .. Len(commands) :
                                  /\ commands[i].op = "insert_hit"
                                  /\ commands[i].target = id }
                       last == CHOOSE i \in ins : \A j \in ins : j <= i
                   IN IF ins = {} THEN hist.kb[k]
                      ELSE [n |-> 0, vx |-> commands[last].a,
                            vy |-> commands[last].b]]]
    /\ UNCHANGED << presses, state, changed, anim, combo_window, jump_physics,
                    transform, hitbox, hit_tracking, health, messages >>

---------------------------------------------------------------------------
(* Status decay, defeat handling, enemy movement *)

RECURSIVE RemoveCmds(_, _)
RemoveCmds(op, slots) ==
    IF slots = << >> THEN << >>
    ELSE << Cmd(op, EntityId(Head(slots)), 0, 0) >> \o RemoveCmds(op, Tail(slots))

update_stun_timers ==
    /\ pc = "stun_timers"
    /\ pc' = "enemy_defeat"
    /\ LET ticked == [s \in Slots |->
                        IF enemies[s].alive /\ enemies[s].stunned
                        THEN [enemies[s] EXCEPT !.stun_elapsed =
                                TickOnce(@, STUN_DURATION, Dt)]
                        ELSE enemies[s]]
           done == { s \in Alive : /\ ticked[s].stunned
                                   /\ IsFinished(ticked[s].stun_elapsed,
                                                 STUN_DURATION) }
       IN /\ enemies' = ticked
          /\ commands' = commands \o RemoveCmds("remove_stunned", InOrder(done))
    /\ UNCHANGED << tick, presses, input, state, changed, anim, combo_window,
                    jump_physics, transform, hitbox, hit_tracking, health,
                    effects, game_state, messages, hist >>

\* a defeat handler that leaves the defeated enemies in the world
DespawnCmds_none(ids) == << >>

RECURSIVE DespawnCmds(_)
DespawnCmds(ids) ==
    IF ids = << >> THEN << >>
    ELSE << Cmd("despawn", Head(ids), 0, 0) >> \o DespawnCmds(Tail(ids))

handle_enemy_defeat ==
    /\ pc = "enemy_defeat"
    /\ pc' = "sync2"
    /\ commands' = commands \o DespawnCmds(messages.enemy_defeated)
    /\ game_state' =
         [game_state EXCEPT
            !.n_enemies = @ - Len(messages.enemy_defeated),
            !.score = @ + 10 * Len(messages.enemy_defeated)]
    /\ messages' = [messages EXCEPT !.enemy_defeated = << >>]
    /\ UNCHANGED << tick, presses, input, state, changed, anim, combo_window,
                    jump_physics, transform, hitbox, hit_tracking, health,
                    effects, enemies, hist >>

\* a defeat that leaves the game running
GameOver_unset(gs) == gs

\* "game_state.game_over = true"
GameOver(gs) == [gs EXCEPT !.game_over = TRUE]

handle_player_defeat ==
    /\ pc = "player_defeat"
    /\ pc' = "move_enemies"
    /\ IF messages.player_defeated > 0
       THEN /\ state' = "Defeat"
            /\ changed' = Touched
            /\ game_state' = GameOver(game_state)
            /\ hist' = HistOnEnter(hist, "Defeat")
       ELSE UNCHANGED << state, changed, game_state, hist >>
    /\ messages' = [messages EXCEPT !.player_defeated = 0]
    /\ UNCHANGED << tick, presses, input, anim, combo_window, jump_physics,
                    transform, hitbox, hit_tracking, health, effects, enemies,
                    commands >>

\* one enemy chasing the player
Chase(e) ==
    LET x_diff == transform.x - e.x
        dir == IF x_diff > CHASE_HYSTERESIS THEN "Right"
               ELSE IF x_diff < -CHASE_HYSTERESIS THEN "Left"
               ELSE e.direction
        y_diff == transform.y - e.y
        y1 == IF y_diff > CHASE_Y_THRESHOLD THEN e.y + ENEMY_SPEED_Y * Dt
              ELSE IF y_diff < -CHASE_Y_THRESHOLD THEN e.y - ENEMY_SPEED_Y * Dt
              ELSE e.y
        x1 == CASE dir = "Right" -> e.x + ENEMY_SPEED_X * Dt
                [] dir = "Left" -> e.x - ENEMY_SPEED_X * Dt
                [] OTHER -> e.x
    IN [e EXCEPT !.direction = dir, !.x = x1, !.y = y1]

\* a chase that takes the Stunned along
Chasing_stunned_too(e) == e.alive

\* the enemies move_enemies iterates: (With<Enemy>, Without<Stunned>)
Chasing(e) == e.alive /\ ~e.stunned

move_enemies ==
    /\ pc = "move_enemies"
    /\ pc' = "knockback"
    /\ enemies' = [s \in Slots |->
                     IF Chasing(enemies[s])
                     THEN Chase(enemies[s]) ELSE enemies[s]]
    /\ UNCHANGED << tick, presses, input, state, changed, anim, combo_window,
                    jump_physics, transform, hitbox, hit_tracking, health,
                    effects, game_state, messages, commands, hist >>

\* a friction that takes a fifth of the velocity every tick
Decay_by_a_fifth(v) == DivT(v * 8, 10)

\* knockback.velocity *= 0.9, per component
Decay(v) == DivT(v * 9, 10)

\* knockback.velocity.length() < 10.0
Negligible(vx, vy) ==
    /\ Abs(vx) < KNOCKBACK_EPSILON * 1000
    /\ Abs(vy) < KNOCKBACK_EPSILON * 1000
    /\ vx * vx + vy * vy
         < (KNOCKBACK_EPSILON * 1000) * (KNOCKBACK_EPSILON * 1000)

apply_knockback ==
    /\ pc = "knockback"
    /\ pc' = "sync3"
    /\ LET is_grounded == Abs(transform.y - jump_physics.ground_y) < GROUND_TOLERANCE
           pushed == [s \in Slots |->
                        IF enemies[s].alive /\ enemies[s].knockback
                        THEN [enemies[s] EXCEPT
                                !.x = @ + DivT(enemies[s].kbx * Dt, 1000),
                                !.y = @ + DivT(enemies[s].kby * Dt, 1000),
                                !.kbx = Decay(@), !.kby = Decay(@)]
                        ELSE enemies[s]]
           gone == { s \in Alive : /\ pushed[s].knockback
                                   /\ Negligible(pushed[s].kbx, pushed[s].kby) }
           pkbx == Decay(effects.kbx)
           pkby == Decay(effects.kby)
       IN /\ enemies' = pushed
          /\ IF effects.knockback
             THEN /\ transform' =
                       [transform EXCEPT
                          !.x = @ + DivT(effects.kbx * Dt, 1000),
                          !.y = IF is_grounded THEN @
                                ELSE @ + DivT(effects.kby * Dt, 1000)]
                  /\ effects' = [effects EXCEPT !.kbx = pkbx, !.kby = pkby]
             ELSE UNCHANGED << transform, effects >>
          /\ commands' =
               commands
               \o (IF effects.knockback /\ Negligible(pkbx, pkby)
                   THEN << Cmd("remove_knockback", PlayerId, 0, 0) >> ELSE << >>)
               \o RemoveCmds("remove_knockback", InOrder(gone))
    /\ hist' = [hist EXCEPT !.kb = [k \in 0 .. MAX_ENEMIES |->
                   IF (k = 0 /\ effects.knockback)
                      \/ (k # 0 /\ enemies[k].alive /\ enemies[k].knockback)
                   THEN [hist.kb[k] EXCEPT !.n = @ + 1]
                   ELSE hist.kb[k]]]
    /\ UNCHANGED << tick, presses, input, state, changed, anim, combo_window,
                    jump_physics, hitbox, hit_tracking, health, game_state,
                    messages >>

update_hit_flash ==
    /\ pc = "hit_flash"
    /\ pc' = "sync4"
    /\ LET ticked == [s \in Slots |->
                        IF enemies[s].alive /\ enemies[s].hit_flash
                        THEN [enemies[s] EXCEPT !.flash_elapsed =
                                TickOnce(@, FLASH_DURATION, Dt)]
                        ELSE enemies[s]]
           done == { s \in Alive : /\ ticked[s].hit_flash
                                   /\ IsFinished(ticked[s].flash_elapsed,
                                                 FLASH_DURATION) }
           pe == TickOnce(effects.flash_elapsed, FLASH_DURATION, Dt)
       IN /\ enemies' = ticked
          /\ effects' = IF effects.hit_flash
                        THEN [effects EXCEPT !.flash_elapsed = pe] ELSE effects
          /\ commands' =
               commands
               \o (IF effects.hit_flash /\ IsFinished(pe, FLASH_DURATION)
                   THEN << Cmd("remove_hit_flash", PlayerId, 0, 0) >> ELSE << >>)
               \o RemoveCmds("remove_hit_flash", InOrder(done))
    /\ UNCHANGED << tick, presses, input, state, changed, anim, combo_window,
                    jump_physics, transform, hitbox, hit_tracking, health,
                    game_state, messages, hist >>

---------------------------------------------------------------------------
(* Animation, game timer, spawning, game over, restart *)

\* the player's sprite (the enemies' animation drives nothing)
animate_sprite ==
    /\ pc = "animate"
    /\ pc' = "count_down"
    /\ LET a == TickRepeating(anim, Dt)
       IN anim' =
            IF ~a.just_finished THEN a
            ELSE IF state = "Defeat" /\ a.index = a.last THEN a
            ELSE [a EXCEPT !.index = IF a.index = a.last THEN a.first
                                      ELSE a.index + 1]
    /\ UNCHANGED << tick, presses, input, state, changed, combo_window,
                    jump_physics, transform, hitbox, hit_tracking, health,
                    effects, enemies, game_state, messages, commands, hist >>

count_down ==
    /\ pc = "count_down"
    /\ pc' = "spawn_enemy"
    /\ game_state' =
         IF game_state.game_over THEN game_state
         ELSE LET e == TickOnce(game_state.timer, GAME_DURATION, Dt)
              IN [game_state EXCEPT !.timer = e,
                                    !.game_over = IsFinished(e, GAME_DURATION)]
    /\ UNCHANGED << tick, presses, input, state, changed, anim, combo_window,
                    jump_physics, transform, hitbox, hit_tracking, health,
                    effects, enemies, messages, commands, hist >>

\* slots that hold no entity and may still receive one
FreeSlots == { s \in Slots : ~enemies[s].alive /\ enemies[s].gen < MaxGen }

spawn_enemy ==
    /\ pc = "spawn_enemy"
    /\ pc' = "sync5"
    /\ IF \/ game_state.game_over
          \/ game_state.n_enemies >= MAX_ENEMIES
          \/ game_state.timer - game_state.last_spawn_time < SPAWN_INTERVAL
       THEN UNCHANGED << game_state, commands >>
       ELSE /\ FreeSlots # {}
            /\ \E spawn_left \in BOOLEAN :
                 LET s == CHOOSE x \in FreeSlots : \A y \in FreeSlots : x <= y
                 IN commands' =
                      Append(commands,
                             Cmd("spawn", << s, enemies[s].gen + 1 >>,
                                 IF spawn_left THEN -SPAWN_X ELSE SPAWN_X,
                                 IF spawn_left THEN 1 ELSE -1))
            /\ game_state' =
                 [game_state EXCEPT !.n_enemies = @ + 1,
                                    !.last_spawn_time = game_state.timer]
    /\ UNCHANGED << tick, presses, input, state, changed, anim, combo_window,
                    jump_physics, transform, hitbox, hit_tracking, health,
                    effects, enemies, messages, hist >>

handle_game_over ==
    /\ pc = "game_over"
    /\ pc' = "sync6"
    /\ commands' =
         IF game_state.game_over /\ ~game_state.screen
         THEN commands \o RemoveCmds("despawn", InOrder(Alive))
                       \o << Cmd("spawn_screen", PlayerId, 0, 0) >>
         ELSE commands
    /\ UNCHANGED << tick, presses, input, state, changed, anim, combo_window,
                    jump_physics, transform, hitbox, hit_tracking, health,
                    effects, enemies, game_state, messages, hist >>

handle_restart ==
    /\ pc = "restart"
    /\ pc' = "sync_final"
    /\ IF game_state.game_over /\ input.restart
       THEN /\ game_state' =
                 [game_state EXCEPT !.score = 0, !.n_enemies = 0, !.timer = 0,
                                    !.last_spawn_time = 0, !.game_over = FALSE]
            /\ health' = PLAYER_MAX_HEALTH
            /\ state' = "Idle"
            /\ changed' = Touched
            /\ transform' = [transform EXCEPT !.x = PLAYER_SPAWN_X,
                                              !.y = PLAYER_SPAWN_Y]
            /\ jump_physics' = [jump_physics EXCEPT
                                  !.velocity_y = 0,
                                  !.has_used_aerial_attack = FALSE]
            /\ combo_window' = [elapsed |-> 0, last_attack |-> None,
                                queued_combo |-> None]
            /\ commands' =
                 commands
                 \o << Cmd("remove_invulnerable", PlayerId, 0, 0),
                       Cmd("remove_knockback", PlayerId, 0, 0),
                       Cmd("remove_hit_flash", PlayerId, 0, 0) >>
                 \o (IF game_state.screen
                     THEN << Cmd("despawn_screen", PlayerId, 0, 0) >> ELSE << >>)
                 \o RemoveCmds("despawn", InOrder(Alive))
            /\ hist' = [HistOnEnter(hist, "Idle") EXCEPT !.since_jump = "Reset"]
       ELSE UNCHANGED << game_state, health, state, changed, transform,
                         jump_physics, combo_window, commands, hist >>
    /\ UNCHANGED << tick, presses, input, anim, hitbox, hit_tracking, effects,
                    enemies, messages >>

---------------------------------------------------------------------------

Next ==
    \/ BeginTick
    \/ player_input_system
    \/ initialize_jump_physics
    \/ clear_hit_tracking_on_state_change
    \/ player_state_update_system
    \/ player_sprite_update_system
    \/ player_physics_system
    \/ update_attack_hitboxes
    \/ detect_combat_collisions
    \/ detect_player_enemy_collisions
    \/ handle_damage_events
    \/ update_invulnerability
    \/ apply_deferred
    \/ update_stun_timers
    \/ handle_enemy_defeat
    \/ handle_player_defeat
    \/ move_enemies
    \/ apply_knockback
    \/ update_hit_flash
    \/ animate_sprite
    \/ count_down
    \/ spawn_enemy
    \/ handle_game_over
    \/ handle_restart

Spec == Init /\ [][Next]_vars

---------------------------------------------------------------------------
(* The two systems that guard their lookups, applied to worlds the        *)
(* schedule above never hands them: a DamageEvent naming an entity that   *)
(* does not exist, and a world with no player entity.                     *)

\* DamageEvents queued when handle_damage_events runs
MaxQueue == 3

\* an entity id that no slot holds
GhostId == << 1, MaxGen + 1 >>

FailSoftWorlds == { Cluster, LastStand }

\* contact events on the player by the first two enemies of r or by the
\* missing entity; punches by the player or by the missing entity on them
FailSoftEvents(r) ==
    LET foes == { << s, r.enemies[s].gen >> : s \in 1 .. 2 } \cup { GhostId }
    IN { [attacker |-> a, target |-> PlayerId, damage |-> CONTACT_DAMAGE] :
           a \in foes }
       \cup { [attacker |-> a, target |-> t, damage |-> get_damage("Punch")] :
                a \in { PlayerId, GhostId }, t \in foes }

EventQueues(E) == UNION { [1 .. n -> E] : n \in 0 .. MaxQueue }

InitFailSoft ==
    \E r \in FailSoftWorlds, present \in BOOLEAN :
       /\ pc \in { "input", "damage" }
       /\ tick = r.tick
       /\ presses = 0
       /\ input \in (IF pc = "input" THEN Inputs ELSE { NoInput })
       /\ state = (IF present THEN r.state ELSE None)
       /\ changed = r.changed
       /\ anim = r.anim
       \* the combo timer running, so that an input phase that runs shows
       /\ combo_window = [r.combo_window EXCEPT !.elapsed = 0]
       /\ jump_physics = r.jump_physics
       /\ transform = r.transform
       /\ hitbox = r.hitbox
       /\ hit_tracking = r.hit_tracking
       /\ health = r.health
       /\ effects = r.effects
       /\ enemies = r.enemies
       /\ game_state = r.game_state
       /\ messages \in (IF pc = "damage"
                         THEN { [NoMessages EXCEPT !.damage = q] :
                                  q \in EventQueues(FailSoftEvents(r)) }
                         ELSE { NoMessages })
       /\ commands = r.commands
       /\ hist = r.hist

NextFailSoft == player_input_system \/ handle_damage_events

FailSoft == InitFailSoft /\ [][NextFailSoft]_vars

---------------------------------------------------------------------------
(* Claims *)

ComboStates == { "PunchCombo", "KickCombo", "PunchKickCombo" }

\* C1  Combo override: whenever the update phase runs with animation_finished
\* true, the state's update() reporting To(next) and queued_combo = Some(X),
\* the state after the update phase is X, queued_combo is None, last_attack
\* is Some(X) and the combo timer is reset.
C1_ComboOverride ==
    [][ ( /\ pc = "state_update"
          /\ animation_finished
          /\ update(state, UpdateContext).kind = "To"
          /\ combo_window.queued_combo # None )
        => ( /\ state' = combo_window.queued_combo
             /\ combo_window'.queued_combo = None
             /\ combo_window'.last_attack = combo_window.queued_combo
             /\ combo_window'.elapsed = 0 ) ]_vars

\* C1 witness: the update phase has just replaced a finished attack by the
\* combo that the input phase of this same tick queued.
C1_Witness ==
    /\ pc = "sprite_update"
    /\ hist.queued
    /\ state \in ComboStates
    /\ changed.sprite
    /\ combo_window.queued_combo = None
    /\ combo_window.last_attack = state
    /\ combo_window.elapsed = 0

Elements(seq) == { seq[i] : i \in 1 .. Len(seq) }

NoRepeat(seq) == \A i, j \in 1 .. Len(seq) : i # j => seq[i] # seq[j]

\* C2  Hit dedup: during one swing (from the entry into an attacking state
\* until the next change of PlayerState) every defender is the target of at
\* most one DamageEvent of the player, however many ticks it overlaps the
\* active hit volume; every defender that overlaps the active hit volume in
\* the swing has been hit (exactly once).
C2_HitDedup ==
    /\ NoRepeat(hist.swing)
    /\ (pc = "contact_collisions" /\ hitbox.active)
         => \A s \in Alive : Overlaps(s) => EntityId(s) \in Elements(hist.swing)

\* C2 witness: two defenders have been hit in the swing, and one that was
\* hit on an earlier tick overlaps the active hit volume again without a
\* new DamageEvent.
C2_Witness ==
    /\ pc = "contact_collisions"
    /\ hitbox.active
    /\ Len(hist.swing) >= 2
    /\ \E s \in Alive :
         /\ Overlaps(s)
         /\ \A i \in 1 .. Len(messages.damage) :
              messages.damage[i].target # EntityId(s)

\* C3  Aerial attack once: between one entry into Jump and the next, the
\* player enters JumpPunch or JumpKick at most once in total, whatever
\* up / down presses arrive in Jump and Fall.
C3_AerialOnce == hist.aerial <= 1

\* C3 witness: the input phase of the tick right after the aerial attack
\* ended (Fall entered by the previous update phase) saw an attack key and
\* left the player in Fall.
C3_Witness ==
    /\ pc = "init_jump"
    /\ state = "Fall"
    /\ changed.init
    /\ hist.aerial = 1
    /\ (input.up_arrow \/ input.down_arrow)


\* C4 Defeat is absorbing: a step taken with the player in Defeat leaves it
\* in Defeat, whatever the keys, the animation, the ground and velocity
\* conditions and the queued combo are; the one exception is the restart
\* handler acting on R while the game is over, which makes it Idle.
C4_DefeatAbsorbing ==
    [][ state = "Defeat"
        => \/ state' = "Defeat"
           \/ /\ pc = "restart"
              /\ input.restart
              /\ game_state.game_over
              /\ state' = "Idle" ]_vars

\* the update phase has run on a Defeat whose animation had just finished on
\* its last frame, with a combo still queued, and the player is still in Defeat
C4_Witness ==
    /\ pc = "sprite_update"
    /\ state = "Defeat"
    /\ anim.index = anim.last
    /\ anim.just_finished
    /\ combo_window.queued_combo # None

\* the conditions under which the input phase may queue combo X: state and
\* key, second half of the animation, combo timer (ticked by this phase, as
\* the handler reads it) not expired
ComboGate(X, elapsed) ==
    /\ \/ state = "Punch" /\ input.up_arrow /\ X = "PunchCombo"
       \/ state = "PunchCombo" /\ input.down_arrow /\ X = "PunchKickCombo"
       \/ state = "Kick" /\ input.down_arrow /\ X = "KickCombo"
    /\ anim.index >= (anim.last + 1) \div 2
    /\ elapsed < COMBO_DURATION

\* C5 Combo queue gating: queued_combo goes from None to Some(X) only in a
\* step of the input phase, and only with the player in Punch and up just
\* pressed (X = PunchCombo), in PunchCombo and down just pressed
\* (X = PunchKickCombo) or in Kick and down just pressed (X = KickCombo), the
\* animation frame >= total_frames / 2 and the combo timer not expired; in
\* every other case the input phase leaves queued_combo as it was.
C5_ComboQueueGating ==
    [][ /\ ( combo_window.queued_combo = None
             /\ combo_window'.queued_combo # None )
           => /\ pc = "input"
              /\ ComboGate(combo_window'.queued_combo, combo_window'.elapsed)
        /\ ( pc = "input"
             /\ \A X \in ComboStates : ~ComboGate(X, combo_window'.elapsed) )
           => combo_window'.queued_combo = combo_window.queued_combo ]_vars

\* the input phase has queued PunchCombo on the first frame of the second
\* half of the Punch animation (frame 6 of 13)
C5_Witness ==
    /\ pc = "init_jump"
    /\ hist.queued
    /\ state = "Punch"
    /\ anim.index = (anim.last + 1) \div 2
    /\ combo_window.queued_combo = "PunchCombo"

\* C6 Jump initialization precedes the update phase: on the tick the input
\* phase enters Jump, when that tick's update phase is about to run ground_y
\* is the player's y, velocity_y is jump_force and has_used_aerial_attack is
\* false; the update phase of that tick leaves the player in Jump; and Jump
\* becomes Fall only in the update phase of a later tick, with velocity_y <= 0.
C6_JumpInitFirst ==
    /\ [] ( ( pc = "state_update" /\ hist.jumped )
            => /\ state = "Jump"
               /\ jump_physics.ground_y = transform.y
               /\ jump_physics.velocity_y = jump_physics.jump_force
               /\ ~jump_physics.has_used_aerial_attack )
    /\ [] ( ( pc = "sprite_update" /\ hist.jumped ) => state = "Jump" )
    /\ [][ ( state = "Jump" /\ state' = "Fall" )
           => /\ pc = "state_update"
              /\ ~hist.jumped
              /\ jump_physics.velocity_y <= 0 ]_vars

\* the update phase has run on the tick the input phase entered Jump: still
\* Jump, rising at jump_force from the captured ground
C6_Witness ==
    /\ pc = "sprite_update"
    /\ hist.jumped
    /\ state = "Jump"
    /\ jump_physics.velocity_y = JUMP_FORCE
    /\ jump_physics.ground_y = transform.y

\* the damage the first n events of this tick carry for entity id
RECURSIVE DamageTo(_, _)
DamageTo(id, n) ==
    IF n = 0 THEN 0
    ELSE DamageTo(id, n - 1)
         + (IF messages.damage[n].target = id
            THEN messages.damage[n].damage ELSE 0)

\* the entity exists: the player carrying a PlayerState, or a live enemy
HasHealth(id) == (id = PlayerId /\ state # None) \/ SlotOf(enemies, id) # 0

HealthOf(id) ==
    IF id = PlayerId THEN health ELSE enemies[SlotOf(enemies, id)].health

\* the target's health once event i of this tick has been subtracted
ResultOf(i) ==
    HealthOf(messages.damage[i].target)
    - DamageTo(messages.damage[i].target, i)

Occurrences(seq, x) == Cardinality({ k \in 1 .. Len(seq) : seq[k] = x })

\* C7 Damage resolution: each DamageEvent whose target has health lowers that
\* target's health by exactly its damage; an event whose result is <= 0
\* raises one EnemyDefeatedEvent (enemy) or PlayerDefeatedEvent (player) and
\* attaches nothing; an event whose result is > 0 raises no defeat event and
\* attaches Stunned + Knockback + HitFlash to an enemy target, Invulnerable +
\* Knockback + HitFlash to a player target (in place at the next
\* synchronisation point).
C7_DamageResolution ==
    /\ [][ pc = "damage"
           => LET evs == messages.damage
                  hit == { i \in 1 .. Len(evs) : HasHealth(evs[i].target) }
                  to(id) == { i \in hit : evs[i].target = id }
                  new == SubSeq(commands', Len(commands) + 1, Len(commands'))
                  attach(id) == { k \in 1 .. Len(new) : new[k].target = id }
              IN /\ health' = health - DamageTo(PlayerId, Len(evs))
                 /\ \A s \in Alive :
                      enemies'[s].health
                        = enemies[s].health - DamageTo(EntityId(s), Len(evs))
                 /\ messages'.player_defeated
                      = messages.player_defeated
                        + Cardinality({ i \in to(PlayerId) : ResultOf(i) <= 0 })
                 /\ \A s \in Alive :
                      Occurrences(messages'.enemy_defeated, EntityId(s))
                        = Occurrences(messages.enemy_defeated, EntityId(s))
                          + Cardinality({ i \in to(EntityId(s)) :
                                            ResultOf(i) <= 0 })
                 /\ \A k \in 1 .. Len(new) :
                      /\ new[k].op = "insert_hit"
                      /\ HasHealth(new[k].target)
                 /\ \A id \in { evs[i].target : i \in hit } :
                      Cardinality(attach(id))
                        = Cardinality({ i \in to(id) : ResultOf(i) > 0 }) ]_vars
    /\ [] ( pc = "stun_timers"
            => \A id \in hist.attached :
                 IF id = PlayerId
                 THEN /\ effects.invulnerable
                      /\ effects.knockback
                      /\ effects.hit_flash
                 ELSE /\ SlotOf(enemies, id) # 0
                      /\ enemies[SlotOf(enemies, id)].stunned
                      /\ enemies[SlotOf(enemies, id)].knockback
                      /\ enemies[SlotOf(enemies, id)].hit_flash )

\* damage resolution has just run on one swing that hit two enemies: one is
\* defeated (event raised, nothing attached), the other survives and gets
\* its effects
C7_Witness ==
    /\ pc = "invulnerability"
    /\ \E s, t \in Alive :
         /\ s # t
         /\ enemies[s].health <= 0
         /\ Occurrences(messages.enemy_defeated, EntityId(s)) = 1
         /\ EntityId(s) \notin hist.attached
         /\ enemies[t].health > 0
         /\ EntityId(t) \in hist.attached

\* C8 as stated: when a DamageEvent brings the player's health to <= 0, at
\* the end of that tick the player is in Defeat and game_over is true; and at
\* every tick boundary Defeat implies game_over.
C8_DefeatAtEndOfTick ==
    /\ ( pc = "sync_final" /\ hist.lethal )
       => ( state = "Defeat" /\ game_state.game_over )
    /\ ( pc = "tick" /\ state = "Defeat" ) => game_state.game_over

\* C8 Player defeat: when a DamageEvent brings the player's health to <= 0,
\* the defeat handler of that tick leaves the player in Defeat with game_over
\* true, whatever state the player was in and however many lethal events
\* arrived; at the end of that tick this still holds unless R was just
\* pressed in that tick, in which case the restart handler has made the
\* player Idle and game_over false; and at every tick boundary Defeat
\* implies game_over.
C8_PlayerDefeat ==
    /\ ( pc = "move_enemies" /\ hist.lethal )
       => ( state = "Defeat" /\ game_state.game_over )
    /\ ( pc = "sync_final" /\ hist.lethal )
       => IF input.restart
          THEN state = "Idle" /\ ~game_state.game_over
          ELSE state = "Defeat" /\ game_state.game_over
    /\ ( pc = "tick" /\ state = "Defeat" ) => game_state.game_over

\* every system of a tick has run in which two lethal events arrived (health 1, two
\* enemies in contact): Defeat, game over
C8_Witness ==
    /\ pc = "sync_final"
    /\ hist.lethal
    /\ health < 0
    /\ state = "Defeat"
    /\ game_state.game_over

\* the enemies among the targets damage resolution attached effects to in
\* this tick that still exist
AttachedEnemies ==
    { s \in Alive : EntityId(s) \in hist.attached }

PlayerEvents(seq) ==
    { i \in 1 .. Len(seq) : seq[i].target = PlayerId }

\* C10 as stated, for Invulnerable: on every tick on which the player holds
\* Invulnerable when contact detection runs, no DamageEvent targeting the
\* player is raised and the player's health is, when every system of the
\* tick has run, what it was when the tick began.
C10_InvulnerableHealthUnchanged ==
    /\ ( pc = "damage" /\ hist.inv_contact )
       => PlayerEvents(messages.damage) = {}
    /\ ( pc = "sync_final" /\ hist.inv_contact ) => health = hist.health0

\* C10 Status gating: on every tick on which the player holds Invulnerable
\* when contact detection runs, no DamageEvent targeting the player is raised
\* and the tick leaves the player's health as it was, unless the restart
\* handler acts in that tick (game over, R just pressed) and resets it to
\* the maximum; an enemy that holds Stunned when the chase/movement step runs
\* is not moved or turned by it, and an enemy that holds Stunned when contact
\* detection runs raises no contact DamageEvent against the player.
C10_StatusGating ==
    /\ [] ( ( pc = "damage" /\ hist.inv_contact )
            => PlayerEvents(messages.damage) = {} )
    /\ [] ( ( pc = "sync_final" /\ hist.inv_contact )
            => \/ health = hist.health0
               \/ /\ input.restart
                  /\ ~game_state.game_over
                  /\ health = PLAYER_MAX_HEALTH )
    /\ [][ pc = "move_enemies"
           => \A s \in Alive :
                enemies[s].stunned
                => /\ enemies'[s].x = enemies[s].x
                   /\ enemies'[s].y = enemies[s].y
                   /\ enemies'[s].direction = enemies[s].direction ]_vars
    /\ [][ pc = "contact_collisions"
           => \A s \in Alive :
                enemies[s].stunned
                => \A i \in PlayerEvents(messages'.damage) :
                     messages'.damage[i].attacker # EntityId(s) ]_vars

\* contact detection has run with the player not Invulnerable and a Stunned
\* enemy within contact distance: no event against the player comes from it
C10_Witness ==
    /\ pc = "damage"
    /\ ~hist.inv_contact
    /\ \E s \in Alive :
         /\ enemies[s].stunned
         /\ InContact(transform.x, transform.y, enemies[s].x, enemies[s].y)
         /\ \A i \in PlayerEvents(messages.damage) :
              messages.damage[i].attacker # EntityId(s)

\* the live, non-stunned enemies less than 100 px from the player
WithinContactRange ==
    { s \in Slots :
        /\ enemies[s].alive
        /\ ~enemies[s].stunned
        /\ Abs(transform.x - enemies[s].x) < 10000
        /\ Abs(transform.y - enemies[s].y) < 10000
        /\ (transform.x - enemies[s].x) * (transform.x - enemies[s].x)
             + (transform.y - enemies[s].y) * (transform.y - enemies[s].y)
             < 10000 * 10000 }

\* C11  Same-tick multiple contacts: with k >= 1 non-stunned enemies within
\* contact range of a non-invulnerable player at contact detection, exactly k
\* DamageEvents are raised, one per such enemy, each of 1 damage and aimed at
\* the player; damage resolution of that tick lowers the player's health by
\* exactly k, and the health stays there until the restart handler; if the
\* player survives, then from the next synchronisation point on it holds
\* Invulnerable, Knockback and HitFlash once each: both timers at zero and
\* the knockback velocity that of a single contact (magnitude 500 px/s, to
\* within the 1 px/s of the integer square root) however many contacts
\* there were.
C11_MultipleContacts ==
    /\ [][ pc = "contact_collisions" /\ ~effects.invulnerable =>
            LET k == Cardinality(WithinContactRange)
                old == Len(messages.damage)
                new == messages'.damage
            IN /\ Len(new) = old + k
               /\ \A i \in old + 1 .. old + k :
                    /\ new[i].target = PlayerId
                    /\ new[i].damage = 1
               /\ { new[i].attacker : i \in old + 1 .. old + k }
                    = { EntityId(s) : s \in WithinContactRange }
               /\ hist'.contacts = k ]_vars
    /\ [][ pc = "damage" => health' = health - hist.contacts ]_vars
    /\ [](pc \in { "invulnerability", "sync1", "stun_timers", "enemy_defeat",
                   "sync2", "player_defeat", "move_enemies", "knockback",
                   "sync3", "hit_flash", "sync4", "animate", "count_down",
                   "spawn_enemy", "sync5", "game_over", "sync6", "restart" }
            => health = hist.health0 - hist.contacts)
    /\ [](pc = "stun_timers" /\ hist.contacts >= 1 /\ health > 0
            => /\ effects.invulnerable /\ effects.inv_elapsed = 0
               /\ effects.hit_flash /\ effects.flash_elapsed = 0
               /\ effects.knockback
               /\ Abs(effects.kbx) <= 500 * 1000
               /\ Abs(effects.kby) <= 500 * 1000
               /\ (Abs(effects.kbx) \div 1000) * (Abs(effects.kbx) \div 1000)
                    + (Abs(effects.kby) \div 1000) * (Abs(effects.kby) \div 1000)
                    < 501 * 501)

\* two enemies in contact in one tick: health 12 -> 10, the effects attached
C11_Witness ==
    /\ pc = "stun_timers"
    /\ hist.contacts = 2
    /\ hist.health0 = 12 /\ health = 10
    /\ effects.invulnerable /\ effects.knockback /\ effects.hit_flash

\* the enemies a Punch of this tick has hit, at damage resolution
PunchedNow ==
    { s \in Slots :
        /\ state = "Punch"
        /\ enemies[s].alive
        /\ \E i \in DOMAIN messages.damage :
             /\ messages.damage[i].attacker = PlayerId
             /\ messages.damage[i].target = EntityId(s) }

\* those of them hit for the second time: hit once before, by a Punch
PunchedAgain ==
    { s \in PunchedNow : enemies[s].health = 4 /\ hist.punched[s] >= 0 }

\* C12 as stated: whenever the hit of a second Punch swing lands on an enemy
\* that an earlier Punch swing took from health 6 to 4, the Stunned attached
\* by the first hit has already been removed.
C12_StunClearedBeforeSecondHit ==
    pc = "damage" => \A s \in PunchedAgain : ~enemies[s].stunned

\* C12  Two Punch swings on one enemy: the first Punch hit takes an enemy of
\* health 6 to 4 and attaches Stunned (timer at zero) at the next
\* synchronisation point; the hit of a later Punch swing takes it to 2 and
\* does not defeat it; when that second hit lands, Stunned has been removed
\* if and only if the frames since the first hit add up to at least the
\* 0.5 s of the stun timer: a second swing that lands sooner finds the enemy
\* still Stunned.
C12_TwoPunchSwings ==
    /\ [][ pc = "damage" =>
            /\ \A s \in PunchedNow :
                 enemies[s].health = 6 =>
                   /\ enemies'[s].health = 4
                   /\ hist'.punched[s] = 0
            /\ \A s \in PunchedAgain :
                 /\ enemies'[s].alive
                 /\ enemies'[s].health = 2
                 /\ Occurrences(messages'.enemy_defeated, EntityId(s)) = 0
          ]_vars
    /\ [](pc = "stun_timers" =>
            \A s \in Slots :
              enemies[s].alive /\ hist.punched[s] = 0 =>
                enemies[s].stunned /\ enemies[s].stun_elapsed = 0)
    /\ [](pc = "damage" =>
            \A s \in PunchedAgain :
              enemies[s].stunned <=> hist.punched[s] < 50)

\* a second Punch hit that lands on a still-Stunned enemy
C12_Witness ==
    /\ pc = "damage"
    /\ \E s \in PunchedAgain :
         enemies[s].stunned /\ enemies[s].stun_elapsed = hist.punched[s]

\* C13  Game-over input freeze: while game_over is set, the input phase
\* changes nothing whatever the keys: PlayerState, queued_combo, last_attack
\* and the combo timer (and everything else) are left as they were.  The rest
\* of the tick still runs: the update phase makes its automatic transitions
\* (an ended ground attack or Land leaves for Idle or its queued combo, a Jump
\* with velocity_y <= 0 becomes Fall), physics integrates gravity in Jump
\* and Fall, and the Invulnerable and HitFlash timers count the frame.
C13_GameOverFreeze ==
    /\ [][ pc = "input" /\ game_state.game_over =>
            /\ state' = state
            /\ combo_window' = combo_window
            /\ UNCHANGED << changed, anim, jump_physics, transform, hitbox,
                            hit_tracking, health, effects, enemies, game_state,
                            messages, commands >> ]_vars
    /\ [][ pc = "state_update" /\ game_state.game_over =>
            /\ ( /\ state \in { "Land", "Punch", "PunchCombo", "Kick",
                                "KickCombo", "PunchKickCombo" }
                 /\ anim.index = anim.last /\ anim.just_finished )
               => state' = IF combo_window.queued_combo # None
                           THEN combo_window.queued_combo ELSE "Idle"
            /\ (state = "Jump" /\ jump_physics.velocity_y <= 0)
               => state' = "Fall" ]_vars
    /\ [][ pc = "physics" /\ game_state.game_over /\ state \in { "Jump", "Fall" } =>
            \/ /\ jump_physics'.velocity_y
                     = jump_physics.velocity_y - (1800 * Dt) \div 100
               /\ transform'.y = transform.y + jump_physics'.velocity_y * Dt
            \/ /\ jump_physics'.velocity_y = 0
               /\ transform'.y = jump_physics.ground_y ]_vars
    /\ [][ pc = "invulnerability" /\ game_state.game_over /\ effects.invulnerable =>
            effects'.inv_elapsed > effects.inv_elapsed ]_vars
    /\ [][ pc = "hit_flash" /\ game_state.game_over /\ effects.hit_flash =>
            effects'.flash_elapsed > effects.flash_elapsed ]_vars

\* the game over since an earlier tick, a key down, and the Punch under way
\* has just ended for Idle while Invulnerable keeps counting
C13_Witness ==
    /\ pc = "sprite_update"
    /\ game_state.game_over
    /\ input # NoInput
    /\ state = "Idle" /\ changed.sprite
    /\ effects.invulnerable /\ effects.inv_elapsed > 0

\* C14  Reset: when the restart handler runs with game_over set and R just
\* pressed, afterwards the player's health is the maximum, the PlayerState is
\* Idle, the position is the spawn position, every JumpPhysics field and
\* every ComboWindow field has its value at initial spawn, game_over is
\* false and the score is 0; when game_over is not set it changes nothing.
C14_RestartReinitialises ==
    [][ pc = "restart" =>
          /\ (game_state.game_over /\ input.restart) =>
                /\ health' = 20
                /\ state' = "Idle"
                /\ transform'.x = -20000 /\ transform'.y = -20000
                /\ jump_physics' = [velocity_y |-> 0, ground_y |-> -10000,
                                    jump_force |-> 1000,
                                    has_used_aerial_attack |-> FALSE]
                /\ combo_window' = [elapsed |-> 0, last_attack |-> None,
                                    queued_combo |-> None]
                /\ ~game_state'.game_over
                /\ game_state'.score = 0
          /\ ~game_state.game_over =>
                UNCHANGED << state, changed, anim, combo_window, jump_physics,
                            transform, hitbox, hit_tracking, health, effects,
                            enemies, game_state, messages, commands >>
      ]_vars

\* C15  Health is never left negative: at the end of every tick the current
\* health of the player and of every live enemy is >= 0; a negative value
\* exists only inside damage resolution.
C15_HealthNeverLeftNegative ==
    pc = "tick" =>
      /\ health >= 0
      /\ \A s \in Slots : enemies[s].alive => enemies[s].health >= 0

\* C16  Ground clamp: after the physics stage of every tick the player's y is
\* >= ground_y, in every state; the physics stage leaves y where gravity (in
\* Jump and Fall) or nothing (in every other state) puts it unless that is
\* below ground_y, and then it sets y to ground_y and velocity_y to 0.
C16_GroundClamp ==
    /\ [](pc = "hitboxes" => transform.y >= jump_physics.ground_y)
    /\ [][ pc = "physics" =>
            LET v == jump_physics.velocity_y - (1800 * Dt) \div 100
                y == IF state \in { "Jump", "Fall" }
                     THEN transform.y + v * Dt ELSE transform.y
            IN IF y < jump_physics.ground_y
               THEN /\ transform'.y = jump_physics.ground_y
                    /\ jump_physics'.velocity_y = 0
               ELSE transform'.y = y ]_vars

\* the first tick after spawn: the player, spawned 100 px below ground_y and
\* in a state without gravity, has been lifted to ground_y
C16_Witness ==
    /\ pc = "hitboxes"
    /\ game_state.timer = 0 /\ ~game_state.game_over
    /\ state = "IdleToRun"
    /\ transform.y = -10000 /\ jump_physics.ground_y = -10000
    /\ jump_physics.velocity_y = 0

\* the DamageEvents of the sequence that have the player as attacker
ByPlayer(seq) == { i \in DOMAIN seq : seq[i].attacker = PlayerId }

\* the damage value the behaviour table gives each attacking state
TableDamage ==
    [ s \in { "Punch", "PunchCombo", "Kick", "KickCombo", "PunchKickCombo",
              "JumpPunch", "JumpKick" } |->
        IF s \in { "Punch", "PunchCombo" } THEN 2
        ELSE IF s \in { "JumpPunch", "JumpKick" } THEN 6 ELSE 3 ]

\* C17  Hit window: after the hitbox update of each tick the hitbox is active
\* iff the current PlayerState is attacking and the current frame lies in
\* [first + total/3, first + 2*total/3], total = last - first (integer
\* division); a DamageEvent with the player as attacker is raised only by
\* hit detection on such a tick, and its damage is the damage value of the
\* state current at detection (2, 3 or 6).
C17_HitWindow ==
    /\ [](pc = "combat_collisions" =>
            (hitbox.active <=>
               /\ state \in DOMAIN TableDamage
               /\ anim.index >= anim.first + (anim.last - anim.first) \div 3
               /\ anim.index <= anim.first
                                  + (2 * (anim.last - anim.first)) \div 3))
    /\ [][ Cardinality(ByPlayer(messages'.damage))
              > Cardinality(ByPlayer(messages.damage)) =>
            /\ pc = "combat_collisions"
            /\ hitbox.active
            /\ state \in DOMAIN TableDamage
            /\ \A i \in ByPlayer(messages'.damage) :
                 messages'.damage[i].damage = TableDamage[state] ]_vars

\* a Kick in its hit window has just raised a DamageEvent of 3 damage
C17_Witness ==
    /\ pc = "contact_collisions"
    /\ state = "Kick" /\ hitbox.active
    /\ anim.index \in 7 .. 13
    /\ \E i \in ByPlayer(messages.damage) : messages.damage[i].damage = 3

\* the states whose get_physics_config() sets locks_movement
LockingStates ==
    { "Land", "Punch", "PunchCombo", "Kick", "KickCombo", "PunchKickCombo",
      "Defeat" }

\* every combination of left / right / shift / space / up / down
KeyCombinations ==
    [left : BOOLEAN, right : BOOLEAN, shift : BOOLEAN, space : BOOLEAN,
     up_arrow : BOOLEAN, down_arrow : BOOLEAN, restart : { FALSE }]

\* C18  Input lock: in every movement-locking state the input phase never
\* changes the PlayerState variant: for every combination of left, right,
\* shift, space, up and down the transition it acts on is no To(_), and it is
\* None once the combo window has expired; the keys can do nothing but set
\* queued_combo (last_attack is kept, the combo timer counts the frame
\* whatever the keys, everything else is untouched), and with the combo
\* window expired the phase has no effect at all.
C18_InputLock ==
    /\ [](pc = "input" /\ state \in LockingStates =>
            LET elapsed == IF combo_window.elapsed + Dt >= 50 THEN 50
                           ELSE combo_window.elapsed + Dt
            IN \A in \in KeyCombinations :
                 /\ InputTransitionOf(in, elapsed).kind # "To"
                 /\ elapsed >= 50 => InputTransitionOf(in, elapsed).kind = "None")
    /\ [][ pc = "input" /\ state \in LockingStates =>
            /\ state' = state
            /\ combo_window'.last_attack = combo_window.last_attack
            /\ combo_window'.elapsed \in
                 { combo_window.elapsed,
                   IF combo_window.elapsed + Dt >= 50 THEN 50
                   ELSE combo_window.elapsed + Dt }
            /\ \/ combo_window'.queued_combo = combo_window.queued_combo
               \/ /\ combo_window'.queued_combo
                       \in { "PunchCombo", "KickCombo", "PunchKickCombo" }
                  /\ input.up_arrow \/ input.down_arrow
                  /\ combo_window'.elapsed < 50
            /\ combo_window.elapsed >= 50 => combo_window' = combo_window
            /\ UNCHANGED << changed, anim, jump_physics, transform, hitbox,
                            hit_tracking, health, effects, enemies, game_state,
                            messages, commands >> ]_vars

\* Space pressed during a Kick, the game running: the Kick goes on
C18_Witness ==
    /\ pc = "init_jump"
    /\ state = "Kick" /\ anim.index > 1
    /\ input.space
    /\ ~game_state.game_over

\* the states the behaviour table marks as attacks
AttackStates ==
    { "Punch", "PunchCombo", "Kick", "KickCombo", "PunchKickCombo",
      "JumpPunch", "JumpKick" }

\* C19  Behaviour table: is_attacking is true exactly for Punch, PunchCombo,
\* Kick, KickCombo, PunchKickCombo, JumpPunch and JumpKick; the damage is 2 for
\* Punch and PunchCombo, 3 for Kick, KickCombo and PunchKickCombo, 6 for
\* JumpPunch and JumpKick and 0 for every other state; locks_movement is true
\* exactly for Land, Punch, PunchCombo, Kick, KickCombo, PunchKickCombo and
\* Defeat.  In particular the input phase run in Idle with ArrowUp just
\* pressed (the game not over) leaves the player in Punch, a state of damage
\* 2 that locks movement, whatever other keys are held.
C19_BehaviorTable ==
    /\ [](\A s \in PlayerStateType :
            /\ is_attacking(s) <=> s \in AttackStates
            /\ get_damage(s) =
                 (IF s = "Punch" \/ s = "PunchCombo" THEN 2
                  ELSE IF s = "Kick" \/ s = "KickCombo" \/ s = "PunchKickCombo"
                       THEN 3
                  ELSE IF s = "JumpPunch" \/ s = "JumpKick" THEN 6
                  ELSE 0)
            /\ locks_movement(s) <=>
                 (s = "Land" \/ s = "Defeat"
                    \/ (s \in AttackStates /\ s # "JumpPunch" /\ s # "JumpKick")))
    /\ [](pc = "input" /\ state = "Idle" =>
            \A in \in KeyCombinations :
               in.up_arrow =>
                 InputTransitionOf(in, combo_window.elapsed) = To("Punch"))
    /\ [][ pc = "input" /\ state = "Idle" /\ input.up_arrow
             /\ ~game_state.game_over =>
            /\ state' = "Punch"
            /\ is_attacking(state')
            /\ get_damage(state') = 2
            /\ locks_movement(state') ]_vars

\* ArrowUp pressed while the Idle animation (last frame 23) is playing: the
\* input phase has entered Punch
C19_Witness ==
    /\ pc = "init_jump"
    /\ state = "Punch" /\ changed.init
    /\ input.up_arrow
    /\ anim.last = 23
    /\ combo_window.last_attack = "Punch" /\ combo_window.elapsed = 0

\* C20  Shift is the run modifier: when the input phase runs in Idle with
\* left or right held and none of ArrowUp, ArrowDown and Space just pressed
\* (the game not over), Shift held leads to IdleToRun and Shift not held
\* leads to IdleToWalk; the state update then takes IdleToRun to Run and
\* IdleToWalk to Walk and nowhere else.
C20_ShiftRunModifier ==
    /\ [][ pc = "input" /\ state = "Idle" /\ ~game_state.game_over
             /\ (input.left \/ input.right)
             /\ ~input.up_arrow /\ ~input.down_arrow /\ ~input.space =>
            state' = (IF input.shift THEN "IdleToRun" ELSE "IdleToWalk") ]_vars
    /\ [][ pc = "state_update" /\ state' # state =>
            /\ state = "IdleToRun" => state' = "Run"
            /\ state = "IdleToWalk" => state' = "Walk" ]_vars

\* the systems before which a DamageEvent may be waiting for its reader
DamagePending == { "contact_collisions", "damage" }

\* the systems before which an EnemyDefeatedEvent may be waiting
EnemyDefeatPending == { "invulnerability", "sync1", "stun_timers", "enemy_defeat" }

\* the systems before which a PlayerDefeatedEvent may be waiting
PlayerDefeatPending == EnemyDefeatPending \cup { "sync2", "player_defeat" }

\* C21  Events are consumed in the tick they are produced: a DamageEvent
\* exists only between hit detection and damage resolution of one tick, an
\* EnemyDefeatedEvent only between damage resolution and handle_enemy_defeat,
\* a PlayerDefeatedEvent only between damage resolution and
\* handle_player_defeat, so none is carried over a tick boundary; damage
\* resolution subtracts every DamageEvent of the tick exactly once and empties
\* the queue; handle_enemy_defeat scores 10, lowers n_enemies by one and
\* queues one despawn for every EnemyDefeatedEvent, no enemy being named
\* twice, and the despawn takes effect at the next synchronisation point;
\* handle_player_defeat puts the player in Defeat and sets game_over.
C21_EventsConsumedInTick ==
    /\ [](/\ pc \notin DamagePending => messages.damage = << >>
          /\ pc \notin EnemyDefeatPending => messages.enemy_defeated = << >>
          /\ pc \notin PlayerDefeatPending => messages.player_defeated = 0
          /\ NoRepeat(messages.enemy_defeated))
    /\ [][ pc = "damage" =>
            /\ messages'.damage = << >>
            /\ health' = health - DamageTo(PlayerId, Len(messages.damage))
            /\ \A s \in Alive :
                 enemies'[s].health
                   = enemies[s].health
                     - DamageTo(EntityId(s), Len(messages.damage)) ]_vars
    /\ [][ pc = "enemy_defeat" =>
            LET evs == messages.enemy_defeated
            IN /\ game_state'.score = game_state.score + 10 * Len(evs)
               /\ game_state'.n_enemies = game_state.n_enemies - Len(evs)
               /\ Len(commands') = Len(commands) + Len(evs)
               /\ \A i \in 1 .. Len(evs) :
                    /\ commands'[Len(commands) + i].op = "despawn"
                    /\ commands'[Len(commands) + i].target = evs[i]
               /\ messages'.enemy_defeated = << >> ]_vars
    /\ [][ pc = "sync2" =>
            \A i \in 1 .. Len(commands) :
               commands[i].op = "despawn"
                 => SlotOf(enemies', commands[i].target) = 0 ]_vars
    /\ [][ pc = "player_defeat" /\ messages.player_defeated > 0 =>
            /\ state' = "Defeat"
            /\ game_state'.game_over
            /\ messages'.player_defeated = 0 ]_vars

\* a tick in which an enemy was defeated and the player too: the enemy is
\* gone and scored, the player is in Defeat, no event is left
C21_Witness ==
    /\ pc = "move_enemies"
    /\ state = "Defeat" /\ game_state.game_over /\ hist.lethal
    /\ game_state.score > 0
    /\ messages = NoMessages

\* the events among the first n of this tick that find their target and
\* leave it alive, in order: the ones that attach hit effects
RECURSIVE Survived(_)
Survived(n) ==
    IF n = 0 THEN << >>
    ELSE Survived(n - 1)
         \o (IF HasHealth(messages.damage[n].target) /\ ResultOf(n) > 0
             THEN << messages.damage[n] >> ELSE << >>)

\* C22  Missing actors fail soft.  In damage resolution a DamageEvent whose
\* target does not exist changes nothing: health, enemies, commands and
\* defeat events come out as if only the events with an existing target had
\* been queued, each of which is still subtracted from its target and
\* answered by exactly one defeat event or one set of hit effects (and when
\* no event has a target nothing changes at all but the queue being
\* emptied); the knockback attached for an event whose attacker does not
\* exist is the zero vector, and it is not zero otherwise.  With no player
\* entity the input phase changes nothing (only the schedule moves on).
C22_FailSoft ==
    /\ [][ pc = "damage" =>
            LET evs == messages.damage
                n == Len(evs)
                found == { i \in 1 .. n : HasHealth(evs[i].target) }
                new == SubSeq(commands', Len(commands) + 1, Len(commands'))
                hit == Survived(n)
            IN /\ hist'.skipped = n - Cardinality(found)
               /\ health' = (IF state # None
                             THEN health - DamageTo(PlayerId, n) ELSE health)
               /\ \A s \in Slots :
                    enemies'[s] =
                      (IF enemies[s].alive
                       THEN [enemies[s] EXCEPT
                               !.health = @ - DamageTo(EntityId(s), n)]
                       ELSE enemies[s])
               /\ effects' = effects
               /\ messages'.damage = << >>
               /\ Len(new) + Len(messages'.enemy_defeated)
                    + messages'.player_defeated = Cardinality(found)
               /\ found = {} => /\ commands' = commands
                                /\ messages' = NoMessages
                                /\ health' = health /\ enemies' = enemies
               /\ Len(new) = Len(hit)
               /\ \A k \in 1 .. Len(new) :
                    /\ new[k].op = "insert_hit"
                    /\ new[k].target = hit[k].target
                    /\ (new[k].a = 0 /\ new[k].b = 0)
                         <=> ~HasHealth(hit[k].attacker) ]_vars
    /\ [][ pc = "input" /\ state = None =>
            UNCHANGED << tick, presses, input, state, changed, anim,
                         combo_window, jump_physics, transform, hitbox,
                         hit_tracking, health, effects, enemies, game_state,
                         messages, commands, hist >> ]_vars

\* no player entity: a punch event naming a missing enemy was skipped, and
\* the punch event behind it reached its enemy, which gets its hit effects
\* with zero knockback, the attacker's position being unavailable
C22_Witness ==
    /\ pc = "invulnerability"
    /\ state = None
    /\ hist.skipped > 0
    /\ \E i \in 1 .. Len(commands) :
         /\ commands[i].op = "insert_hit"
         /\ commands[i].target # PlayerId
         /\ SlotOf(enemies, commands[i].target) # 0
         /\ commands[i].a = 0 /\ commands[i].b = 0
    /\ health = LastStand.health

\* the actors a Knockback can be attached to: 0 the player, s the enemy in
\* slot s
Actors == 0 .. MAX_ENEMIES

HasKnockback(k) ==
    IF k = 0 THEN effects.knockback
    ELSE enemies[k].alive /\ enemies[k].knockback

\* the velocity of the actor's Knockback, in 0.001 px/s
VelocityOf(k) ==
    IF k = 0 THEN << effects.kbx, effects.kby >>
    ELSE << enemies[k].kbx, enemies[k].kby >>

\* the length of a velocity, in 0.1 px/s
Magnitude(v) ==
    ISqrt((v[1] \div 100) * (v[1] \div 100) + (v[2] \div 100) * (v[2] \div 100))

\* 0.9^n in units of 10^-8
RECURSIVE PowNine(_)
PowNine(n) == IF n = 0 THEN 100000000 ELSE (PowNine(n - 1) * 9) \div 10

\* |v0| * 0.9^n for |v0| in 0.1 px/s, in units of 10^-6 px/s
DecayedMagnitude(m0, n) == m0 * (PowNine(n) \div 1000)

\* C23  Knockback decay.  Every decay tick multiplies each component of a
\* Knockback's velocity by 0.9 (to the last digit carried, 0.001 px/s), so
\* after n decay ticks its magnitude is |v0| * 0.9^n; the Knockback is
\* removed, at the synchronisation point after apply_knockback, in the tick
\* of the first decay that leaves the magnitude below 10, and stays until
\* then: against the closed form, with one per cent of tolerance on the
\* magnitude, |v0| * 0.9^n is not yet below 10 for the n decays a Knockback
\* in place has had, and is below 10 for the n at which it is removed.
\* Hence a Knockback of 300 (enemy) is removed by its 33rd decay tick and
\* one of 500 (player) by its 38th, unless a new hit replaces it or its
\* actor is despawned or reset first.
C23_KnockbackDecay ==
    /\ [][ pc = "knockback" =>
            \A k \in Actors :
               HasKnockback(k) =>
                 /\ hist'.kb[k].n = hist.kb[k].n + 1
                 /\ \A c \in 1 .. 2 :
                      /\ Abs(10 * VelocityOf(k)'[c] - 9 * VelocityOf(k)[c]) < 10
                      /\ Abs(VelocityOf(k)'[c]) <= Abs(VelocityOf(k)[c])
                 /\ (\E i \in Len(commands) + 1 .. Len(commands') :
                        /\ commands'[i].op = "remove_knockback"
                        /\ commands'[i].target
                             = (IF k = 0 THEN PlayerId ELSE EntityId(k)))
                      <=> /\ Abs(VelocityOf(k)'[1]) < 10000
                          /\ Abs(VelocityOf(k)'[2]) < 10000
                          /\ VelocityOf(k)'[1] * VelocityOf(k)'[1]
                               + VelocityOf(k)'[2] * VelocityOf(k)'[2]
                               < 10000 * 10000 ]_vars
    /\ [](\A k \in Actors :
            HasKnockback(k) /\ pc # "sync3" =>
              /\ hist.kb[k].n <= 37
              /\ DecayedMagnitude(Magnitude(<< hist.kb[k].vx, hist.kb[k].vy >>),
                                  hist.kb[k].n) >= 99 * 100000)
    /\ [][ \A k \in Actors :
             ( /\ HasKnockback(k) /\ ~HasKnockback(k)'
               /\ (k # 0 => enemies'[k].alive)
               /\ pc # "sync_final" )
             => /\ pc = "sync3"
                /\ DecayedMagnitude(
                     Magnitude(<< hist.kb[k].vx, hist.kb[k].vy >>),
                     hist.kb[k].n) < 101 * 100000
                /\ Magnitude(<< hist.kb[k].vx, hist.kb[k].vy >>) >= 4900
                     => hist.kb[k].n = 38
                /\ /\ Magnitude(<< hist.kb[k].vx, hist.kb[k].vy >>) >= 2950
                   /\ Magnitude(<< hist.kb[k].vx, hist.kb[k].vy >>) <= 3000
                     => hist.kb[k].n = 33 ]_vars

\* the player's Knockback, attached with 500 px/s, has just been removed
\* after its 38th decay tick; its last velocity was below 10 px/s
C23_Witness ==
    /\ pc = "hit_flash"
    /\ ~effects.knockback
    /\ hist.kb[0].n = 38
    /\ Magnitude(<< hist.kb[0].vx, hist.kb[0].vy >>) >= 4900
    /\ state # "Defeat"

\* the states the input phase enters whose update handler leaves them on
\* animation_finished alone
EnteredOnInput ==
    AttackStates \cup { "IdleToWalk", "IdleToRun" }

\* C24  No leftover flags for a just-entered state: an attack or transition
\* state that the input phase has entered in this tick (its sprite not yet
\* set up: the change of state is still pending for the sprite update) is
\* not left by the update phase of the same tick, whatever the animation of
\* the previous state was showing.
C24_NoLeftoverFlags ==
    [][ pc = "state_update" /\ changed.sprite /\ state \in EnteredOnInput
          => state' = state ]_vars

\* C25  Fall entry resets vertical velocity before it is used: in the first
\* physics integration performed in Fall (the state entered in this tick's
\* update phase, its physics initialisation still pending) velocity_y is 0,
\* and no physics integration in Fall raises a player who is not below
\* ground_y: y never increases during a Fall, also after an aerial attack
\* started while ascending.
C25_FallEntryResetsVelocity ==
    /\ [][ pc = "physics" /\ state = "Fall" /\ changed.init
             => jump_physics.velocity_y = 0 ]_vars
    /\ [][ pc = "physics" /\ state = "Fall"
             /\ transform.y >= jump_physics.ground_y
             => transform'.y <= transform.y ]_vars

\* C26  Hit tracking reset.  The reset stage empties HitTracking if the
\* PlayerState has changed since it last ran and is now an attacking state,
\* and leaves it as it is otherwise (a change into a non-attacking state, a
\* tick without a change); no other stage removes anything from it, and only
\* hit detection adds to it.  The reset of an attacking state entered by the
\* input phase happens in the tick of the entry, that of one entered by a
\* queued-combo override in the next tick, in both cases before the swing's
\* hitbox is first active: whenever hit detection runs with an active hitbox,
\* HitTracking holds only defenders that this swing has hit, so a defender
\* hit by the previous swing can be hit again.  (An attacking state that a
\* defeat replaces in the tick of the override is never reset; it never
\* shows a hitbox either.)
C26_HitTrackingReset ==
    /\ [][ pc = "clear_hit" =>
             hit_tracking' = IF changed.hit /\ state \in AttackStates
                             THEN {} ELSE hit_tracking ]_vars
    /\ [][ pc # "clear_hit" => hit_tracking \subseteq hit_tracking' ]_vars
    /\ [][ pc # "clear_hit" /\ pc # "combat_collisions"
             => hit_tracking' = hit_tracking ]_vars
    /\ [][ state' \in AttackStates /\ state' # state
             => pc \in { "input", "state_update" } /\ changed'.hit ]_vars
    /\ [](pc = "combat_collisions" /\ hitbox.active
            => /\ state \in AttackStates
               /\ ~changed.hit
               /\ hit_tracking \subseteq Elements(hist.swing))

\* a PunchCombo entered by the queued-combo override has hit an enemy that
\* the Punch before it had hit
C26_Witness ==
    /\ pc = "contact_collisions"
    /\ state = "PunchCombo"
    /\ hitbox.active
    /\ \E s \in Alive :
         /\ EntityId(s) \in hit_tracking
         /\ enemies[s].health < ENEMY_MAX_HEALTH
         /\ \E i \in DOMAIN messages.damage :
              /\ messages.damage[i].attacker = PlayerId
              /\ messages.damage[i].target = EntityId(s)

\* has_used_aerial_attack goes from true to false in this step
AerialFlagCleared ==
    jump_physics.has_used_aerial_attack /\ ~jump_physics'.has_used_aerial_attack

\* has_used_aerial_attack goes from false to true in this step
AerialFlagSet ==
    ~jump_physics.has_used_aerial_attack /\ jump_physics'.has_used_aerial_attack

\* the physics initialisation of a newly entered state s is running
InitialisingFor(s) == pc = "init_jump" /\ changed.init /\ state = s

---------------------------------------------------------------------------
(* The input phase on the ground, for every combination of keys *)

GroundStates == { "Idle", "IdleToWalk", "IdleToRun", "Walk", "Run" }

\* games in progress with the player on the ground
KeyboardWorlds == { Approach, LastStand }

\* the sprite as player_sprite_update_system sets it up for state s
SpriteOf(s) ==
    [index |-> first_frame(s), first |-> first_frame(s), last |-> last_frame(s),
     duration |-> frame_duration(s), elapsed |-> 0, just_finished |-> FALSE]

\* the player of world r in ground state s, its sprite set up, at the input
\* phase of a tick with any of the keys down
InitKeyboard ==
    \E r \in KeyboardWorlds, s \in GroundStates :
       /\ pc = "input"
       /\ tick = r.tick
       /\ presses = 0
       /\ input \in KeyCombinations
       /\ state = s
       /\ changed = r.changed
       /\ anim = SpriteOf(s)
       /\ combo_window = r.combo_window
       /\ jump_physics = r.jump_physics
       /\ transform = r.transform
       /\ hitbox = r.hitbox
       /\ hit_tracking = r.hit_tracking
       /\ health = r.health
       /\ effects = r.effects
       /\ enemies = r.enemies
       /\ game_state = r.game_state
       /\ messages = r.messages
       /\ commands = r.commands
       /\ hist = r.hist

NextKeyboard == player_input_system

Keyboard == InitKeyboard /\ [][NextKeyboard]_vars

\* the state the priority rule of the ground states chooses from s
GroundChoice(s, in) ==
    IF in.up_arrow THEN { "Punch" }
    ELSE IF in.down_arrow THEN { "Kick" }
    ELSE IF in.space THEN { "Jump" }
    ELSE IF s = "Idle"
         THEN (IF in.left \/ in.right THEN { "IdleToWalk", "IdleToRun" }
               ELSE { s })
         ELSE IF ~in.left /\ ~in.right THEN { "Idle" } ELSE { s }

\* C28  Ground-state input priority: in Idle, IdleToWalk, IdleToRun, Walk and
\* Run, whatever keys are down together, the input phase takes the player to
\* Punch if up is just pressed, else to Kick if down is just pressed, else to
\* Jump if space is just pressed, else it follows the movement rule (Idle:
\* to one of the transition states when left or right is held, no change
\* otherwise; the other four: to Idle when neither left nor right is held,
\* no change otherwise); the state is marked as changed exactly when a
\* transition is taken.
C28_GroundInputPriority ==
    [][ pc = "input" /\ state \in GroundStates =>
          /\ state' \in GroundChoice(state, input)
          /\ handle_input(state, InputContext).kind \in { "To", "None" }
          /\ changed'.sprite <=>
               changed.sprite \/ handle_input(state, InputContext).kind = "To"
      ]_vars

\* up, down, space and left all down in Walk: the input phase has entered
\* Punch
C28_Witness ==
    /\ pc = "init_jump"
    /\ state = "Punch"
    /\ anim = SpriteOf("Walk")
    /\ input.up_arrow /\ input.down_arrow /\ input.space /\ input.left

AerialAttacks == { "JumpPunch", "JumpKick" }

\* C29  Aerial attack exit: in JumpPunch and JumpKick the input phase takes
\* no transition and queues no combo whatever the keys, and the update phase
\* leaves the state only when the animation of the attack has finished (last
\* frame, frame timer just elapsed), to Fall if the player is above ground
\* (y > ground_y + 1) and to Land otherwise; no step takes an aerial attack
\* directly to Idle, and no combo is ever queued during one, so that the
\* queued-combo override never redirects the exit.  (The defeat and restart
\* handlers, which reset the player from any state, are aside: no other
\* stage changes the state of an aerial attack.)
C29_AerialAttackExit ==
    /\ [][ pc = "input" /\ state \in AerialAttacks =>
             /\ state' = state
             /\ combo_window'.queued_combo = combo_window.queued_combo
             /\ \A keys \in KeyCombinations :
                  handle_input(state, InputContextOf(keys)) = TransNone ]_vars
    /\ [][ pc = "state_update" /\ state \in AerialAttacks =>
             IF animation_finished
             THEN /\ anim.last = last_frame(state)
                  /\ ~changed.sprite
                  /\ state' = IF transform.y
                                   > jump_physics.ground_y + GROUND_TOLERANCE
                              THEN "Fall" ELSE "Land"
             ELSE state' = state ]_vars
    /\ [][ ( /\ state \in AerialAttacks /\ state' # state
             /\ pc # "player_defeat" /\ pc # "restart" )
             => (pc = "state_update" /\ state' \in { "Fall", "Land" }) ]_vars
    /\ [](state \in AerialAttacks => combo_window.queued_combo = None)

\* a JumpPunch started at ground level has finished its animation and the
\* update phase has taken it to Land
C29_Witness ==
    /\ pc = "sprite_update"
    /\ state = "Land" /\ changed.sprite
    /\ anim.last = last_frame("JumpPunch") /\ animation_finished
    /\ combo_window.last_attack = "JumpPunch"
    /\ transform.y <= jump_physics.ground_y + GROUND_TOLERANCE

\* the hit-effect insertions queued for entity id, by position in the queue
InsertsFor(id) ==
    { i \in 1 .. Len(commands) :
        commands[i].op = "insert_hit" /\ commands[i].target = id }

\* the removals of status effects queued for entity id
RemovalsFor(id) ==
    { i \in 1 .. Len(commands) :
        /\ commands[i].target = id
        /\ commands[i].op \in { "remove_invulnerable", "remove_stunned",
                                "remove_knockback", "remove_hit_flash",
                                "despawn" } }

LastOf(S) == CHOOSE i \in S : \A j \in S : j <= i

\* C30  Status effects never stack: an actor holds each of Stunned,
\* Invulnerable, Knockback and HitFlash once or not at all, and a hit on an
\* actor that holds them already replaces them: at the synchronisation point
\* that applies the insertions queued for an actor (one or several, no
\* removal queued with them), the actor holds its effects with the timers at
\* zero and with the knockback velocity of the last insertion alone,
\* whatever timers and velocity it held before; the effects of the other
\* actors are left as they were unless commands were queued for them too.
C30_NoStacking ==
    [][ (pc \in SyncPoints) =>
          ( /\ ( (InsertsFor(PlayerId) # {} /\ RemovalsFor(PlayerId) = {}) =>
                   (LET c == commands[LastOf(InsertsFor(PlayerId))]
                    IN effects' = [knockback |-> TRUE, kbx |-> c.a, kby |-> c.b,
                                   hit_flash |-> TRUE, flash_elapsed |-> 0,
                                   invulnerable |-> TRUE, inv_elapsed |-> 0]) )
            /\ (\A s \in Alive :
                   (InsertsFor(EntityId(s)) # {} /\ RemovalsFor(EntityId(s)) = {})
                     => (LET c == commands[LastOf(InsertsFor(EntityId(s)))]
                         IN enemies'[s] =
                              [enemies[s] EXCEPT
                                 !.stunned = TRUE, !.stun_elapsed = 0,
                                 !.knockback = TRUE, !.kbx = c.a, !.kby = c.b,
                                 !.hit_flash = TRUE, !.flash_elapsed = 0]))
            /\ (\A s \in Alive :
                   (\A i \in 1 .. Len(commands) :
                       commands[i].target # EntityId(s))
                     => (enemies'[s] = enemies[s])) )
      ]_vars

\* an enemy hit again while still Stunned and knocked back: after the
\* synchronisation point its stun timer is at zero again and its Knockback
\* is the new one, no decay tick counted
C30_Witness ==
    /\ pc = "stun_timers"
    /\ \E s \in Alive :
         /\ EntityId(s) \in hist.attached
         /\ hist.punched[s] > 0 /\ hist.punched[s] < 50
         /\ enemies[s].stunned /\ enemies[s].stun_elapsed = 0
         /\ enemies[s].knockback /\ hist.kb[s].n = 0
         /\ enemies[s].kbx = hist.kb[s].vx /\ enemies[s].kby = hist.kb[s].vy
         /\ enemies[s].hit_flash /\ enemies[s].flash_elapsed = 0

Least(a, b) == IF a <= b THEN a ELSE b

\* the removals of effect op queued for entity id
QueuedRemoval(op, id) ==
    \E i \in 1 .. Len(commands) :
        commands[i].op = op /\ commands[i].target = id

\* the commands queued by the step being taken
NewCommands == SubSeq(commands', Len(commands) + 1, Len(commands'))

\* C31  Timed effects expire.  At its timer stage every Stunned (0.5 s),
\* Invulnerable (1.0 s) and HitFlash (0.3 s) in place advances its timer by
\* the elapsed time, up to its duration, and its removal is queued exactly when
\* the timer has reached the duration, whether game_over is set or not; the
\* next synchronisation point takes the effect off; hence at no tick boundary
\* an effect is in place with its duration counted down.  An enemy without
\* Stunned is moved by the chase and, when within contact distance of a
\* player without Invulnerable, raises a contact DamageEvent.
C31_TimedEffectsExpire ==
    /\ [][ /\ (pc = "invulnerability" /\ effects.invulnerable) =>
                ( /\ effects'.inv_elapsed
                       = Least(effects.inv_elapsed + Dt, INVULNERABLE_DURATION)
                  /\ (NewCommands
                        = IF effects'.inv_elapsed = INVULNERABLE_DURATION
                          THEN << Cmd("remove_invulnerable", PlayerId, 0, 0) >>
                          ELSE << >>) )
           /\ (pc = "stun_timers") =>
                (\A s \in Alive :
                    enemies[s].stunned =>
                      ( /\ enemies'[s].stun_elapsed
                             = Least(enemies[s].stun_elapsed + Dt, STUN_DURATION)
                        /\ ((enemies'[s].stun_elapsed = STUN_DURATION)
                              <=> (Cmd("remove_stunned", EntityId(s), 0, 0)
                                     \in Elements(NewCommands)) )))
           /\ (pc = "hit_flash") =>
                ( /\ effects.hit_flash =>
                       ( /\ effects'.flash_elapsed
                              = Least(effects.flash_elapsed + Dt, FLASH_DURATION)
                         /\ ((effects'.flash_elapsed = FLASH_DURATION)
                               <=> (Cmd("remove_hit_flash", PlayerId, 0, 0)
                                      \in Elements(NewCommands))) )
                  /\ (\A s \in Alive :
                         enemies[s].hit_flash =>
                           ( /\ enemies'[s].flash_elapsed
                                  = Least(enemies[s].flash_elapsed + Dt,
                                        FLASH_DURATION)
                             /\ ((enemies'[s].flash_elapsed = FLASH_DURATION)
                                   <=> (Cmd("remove_hit_flash", EntityId(s), 0, 0)
                                          \in Elements(NewCommands))) )) )
           /\ (pc \in SyncPoints) =>
                ( /\ QueuedRemoval("remove_invulnerable", PlayerId)
                       => ~effects'.invulnerable
                  /\ QueuedRemoval("remove_hit_flash", PlayerId)
                       => ~effects'.hit_flash
                  /\ (\A s \in Slots :
                         /\ QueuedRemoval("remove_stunned", EntityId(s))
                              => ~enemies'[s].stunned
                         /\ QueuedRemoval("remove_hit_flash", EntityId(s))
                              => ~enemies'[s].hit_flash) )
           /\ (pc = "move_enemies") =>
                (\A s \in Alive :
                    ~enemies[s].stunned => (enemies'[s] = Chase(enemies[s])))
           /\ (pc = "contact_collisions" /\ ~effects.invulnerable) =>
                (\A s \in Alive :
                    ( /\ ~enemies[s].stunned
                      /\ InContact(transform.x, transform.y,
                                   enemies[s].x, enemies[s].y) )
                      => (\E i \in 1 .. Len(messages'.damage) :
                             /\ i > Len(messages.damage)
                             /\ messages'.damage[i].attacker = EntityId(s)
                             /\ messages'.damage[i].target = PlayerId))
         ]_vars
    /\ [](pc = "tick" =>
            /\ effects.invulnerable => effects.inv_elapsed < INVULNERABLE_DURATION
            /\ effects.hit_flash => effects.flash_elapsed < FLASH_DURATION
            /\ \A s \in Alive :
                 /\ enemies[s].stunned => enemies[s].stun_elapsed < STUN_DURATION
                 /\ enemies[s].hit_flash
                      => enemies[s].flash_elapsed < FLASH_DURATION)

\* the game is over, and the Invulnerable of the last contact has just been
\* taken off, 25 ticks of 0.04 s after the hit that applied it (the Knockback
\* of the same hit has decayed 25 times and is still in place)
C31_Witness ==
    /\ pc = "stun_timers"
    /\ game_state.game_over
    /\ ~effects.invulnerable
    /\ effects.knockback /\ hist.kb[0].n = 25

\* the horizontal distance the player_physics_system step being taken moves
\* the player on the ground
GroundStep == Abs(transform'.x - transform.x)

\* C32  Transition states move at the speed of their target state: in a
\* physics step with one of left/right held, the player in IdleToWalk moves
\* by the distance Walk covers in a tick, and the player in IdleToRun by the
\* distance Run covers in a tick (knockback is applied by another system and
\* is no part of the step).
C32_TransitionSpeeds ==
    [][ (pc = "physics" /\ input.left # input.right) =>
          ( /\ ground_speed("IdleToWalk") = ground_speed("Walk")
            /\ ground_speed("IdleToRun") = ground_speed("Run")
            /\ (state = "IdleToWalk") => (GroundStep = ground_speed("Walk") * Dt)
            /\ (state = "IdleToRun") => (GroundStep = ground_speed("Run") * Dt) )
      ]_vars

\* the attack whose handle_input queues combo c
QueuedFrom(c) ==
    CASE c = "PunchCombo" -> "Punch"
      [] c = "PunchKickCombo" -> "PunchCombo"
      [] c = "KickCombo" -> "Kick"
      [] OTHER -> "None"

\* C33  Queued combo matches the active attack: at every tick boundary
\* queued_combo is None, or PunchCombo with the state Punch, or
\* PunchKickCombo with the state PunchCombo, or KickCombo with the state
\* Kick; in particular queued_combo is None in every non-attacking state,
\* Defeat included.
C33_QueuedComboMatches ==
    pc = "tick" =>
      /\ combo_window.queued_combo
           \in { "None", "PunchCombo", "PunchKickCombo", "KickCombo" }
      /\ combo_window.queued_combo # "None"
           => state = QueuedFrom(combo_window.queued_combo)
      /\ ~is_attacking(state) => combo_window.queued_combo = "None"

\* C34  last_attack tracks the active attack: at every tick boundary, an
\* attacking PlayerState S (ground or aerial attack) comes with
\* last_attack = Some(S), whether S was entered by the input phase or by the
\* queued-combo override of the update phase.
C34_LastAttackTracks ==
    (pc = "tick" /\ is_attacking(state)) => combo_window.last_attack = state

\* a PunchKickCombo, which only the queued-combo override enters, at a tick
\* boundary
C34_Witness ==
    /\ pc = "tick"
    /\ state = "PunchKickCombo"
    /\ combo_window.last_attack = "PunchKickCombo"
    /\ combo_window.queued_combo = None

GroundAttacks == { "Punch", "PunchCombo", "Kick", "KickCombo", "PunchKickCombo" }

\* the chains of ground attacks the combo table allows
Chains ==
    { << >>, << "Punch" >>, << "Punch", "PunchCombo" >>,
      << "Punch", "PunchCombo", "PunchKickCombo" >>,
      << "Kick" >>, << "Kick", "KickCombo" >> }

\* C35  Combo chains are closed and bounded.  PunchCombo is entered only from
\* Punch, PunchKickCombo only from PunchCombo and KickCombo only from Kick,
\* each only by the update phase, with animation_finished true and that combo
\* queued; a ground attack is left for another ground attack or for Idle
\* (the defeat handler, which replaces any state by Defeat, and the restart
\* handler, which replaces it by Idle, aside); the ground attacks entered one after the other with no other state in between
\* are always one of Punch, Punch-PunchCombo,
\* Punch-PunchCombo-PunchKickCombo, Kick, Kick-KickCombo, so no chain has
\* more than three attacks.
C35_ComboChains ==
    /\ [][ /\ (state' \in ComboStates /\ state' # state) =>
                ( /\ pc = "state_update"
                  /\ state = QueuedFrom(state')
                  /\ animation_finished
                  /\ combo_window.queued_combo = state' )
           /\ (state' \in { "Punch", "Kick" } /\ state' # state) =>
                (pc = "input" /\ state \notin GroundAttacks)
           /\ (state \in GroundAttacks /\ state' # state
                 /\ pc \notin { "player_defeat", "restart" }) =>
                ( /\ pc = "state_update"
                  /\ animation_finished
                  /\ state' \in { "Idle", combo_window.queued_combo } )
         ]_vars
    /\ [](/\ hist.chain \in Chains
          /\ Len(hist.chain) <= 3
          /\ (state \in GroundAttacks)
               <=> (hist.chain # << >> /\ hist.chain[Len(hist.chain)] = state))

\* the third attack of the longest chain under way
C35_Witness ==
    /\ state = "PunchKickCombo"
    /\ hist.chain = << "Punch", "PunchCombo", "PunchKickCombo" >>

\* the states whose handle_input answers Space with To(Jump)
JumpStarters == { "Idle", "IdleToWalk", "IdleToRun", "Walk", "Run" }

\* the states of a jump under way
JumpStates == { "Jump", "Fall", "Land", "JumpPunch", "JumpKick" }

\* the step being taken enters Jump
JumpEntered ==
    \/ state' = "Jump" /\ state # "Jump"
    \/ pc = "input" /\ pc' = "init_jump" /\ hist'.jumped

\* C36  No double jump.  Jump is entered only by the input phase, from Idle,
\* IdleToWalk, IdleToRun, Walk or Run, with Space just pressed; in Jump, Fall,
\* Land, JumpPunch and JumpKick no combination of keys makes handle_input
\* answer To(Jump) (in whatever frame and with the aerial attack used or
\* not), and the input phase never enters Jump from them; when
\* Jump is entered, the last of (entry into Jump, entry into Land, restart)
\* is not an entry into Jump: between two entries into Jump the player has
\* been in Land, or the game has been restarted.
C36_NoDoubleJump ==
    /\ [][ /\ JumpEntered =>
                ( /\ pc = "input"
                  /\ state \in JumpStarters
                  /\ input.space
                  /\ hist.since_jump # "Jump"
                  /\ hist'.since_jump = "Jump" )
           /\ (pc = "input" /\ state \in JumpStates) =>
                (~hist'.jumped /\ (state' = "Jump" => state = "Jump"))
         ]_vars
    /\ []((pc = "input" /\ state \in JumpStates) =>
             \A in \in KeyCombinations :
                handle_input(state, InputContextOf(in)) # To("Jump"))

\* a second jump: Jump has just been entered by the input phase, and the
\* aerial attack of the jump before, since landed, is still on record
C36_Witness ==
    /\ pc = "init_jump"
    /\ state = "Jump"
    /\ hist.jumped
    /\ jump_physics.has_used_aerial_attack
    /\ combo_window.last_attack = "JumpPunch"

---------------------------------------------------------------------------
(* The schedule run for as long as the player is in a state that ends by   *)
(* itself: a jump or an attack under way is followed to its end, frame     *)
(* after frame, whatever the keys.  Bevy runs every system of the Update   *)
(* schedule in every frame, and Time::delta is positive.                   *)

\* the states that no key ends: the jump, the landing, the attacks
TransientStates ==
    { "Jump", "Fall", "JumpPunch", "JumpKick", "Land",
      "Punch", "PunchCombo", "Kick", "KickCombo", "PunchKickCombo" }

\* games in progress with the player in one of them
LiveWorlds ==
    { Cluster, Airborne, Reprise, KickChain, Touchdown, PunchChain, Rebound,
      Buzzer, LastLeap, Doomed }

InitLive == \E r \in LiveWorlds : Snapshot(r)

\* one more frame, while the jump or the attack lasts
BeginTickLive ==
    /\ state \in TransientStates
    /\ PollKeyboard

NextLive ==
    \/ BeginTickLive
    \/ player_input_system
    \/ initialize_jump_physics
    \/ clear_hit_tracking_on_state_change
    \/ player_state_update_system
    \/ player_sprite_update_system
    \/ player_physics_system
    \/ update_attack_hitboxes
    \/ detect_combat_collisions
    \/ detect_player_enemy_collisions
    \/ handle_damage_events
    \/ update_invulnerability
    \/ apply_deferred
    \/ update_stun_timers
    \/ handle_enemy_defeat
    \/ handle_player_defeat
    \/ move_enemies
    \/ apply_knockback
    \/ update_hit_flash
    \/ animate_sprite
    \/ count_down
    \/ spawn_enemy
    \/ handle_game_over
    \/ handle_restart

Live == InitLive /\ [][NextLive]_vars /\ WF_vars(NextLive)

\* the states of the player in the air
AirStates == { "Jump", "Fall", "JumpPunch", "JumpKick" }

\* the player has been defeated, or the game restarted since the jump began
DefeatedOrReset == state = "Defeat" \/ hist.since_jump = "Reset"

\* C37  Every jump terminates: with every system run in every frame and
\* frames of positive length, whatever the keys (an aerial attack or none,
\* steering or none, the game over by the timer or not), a player in Jump,
\* Fall, JumpPunch, JumpKick or Land eventually is in Idle, unless the player
\* is defeated or the game restarted first; and the only way out of the air,
\* the defeat and restart handlers aside, is into Land.  No behaviour keeps
\* the player in the air for ever.
C37_JumpTerminates ==
    /\ (state \in AirStates \/ (state = "Land" /\ hist.since_jump = "Land"))
          ~> (state = "Idle" \/ DefeatedOrReset)
    /\ [][ (state \in AirStates /\ state' \notin AirStates
               /\ pc \notin { "player_defeat", "restart" })
            => (pc = "state_update" /\ state' = "Land") ]_vars

\* a jump with its one aerial attack is over: back in Idle, through Land
C37_Witness ==
    /\ state = "Idle"
    /\ hist.since_jump = "Land"
    /\ hist.aerial = 1
    /\ jump_physics.has_used_aerial_attack

\* the locking states other than Defeat
EndingStates ==
    { "Land", "Punch", "PunchCombo", "Kick", "KickCombo", "PunchKickCombo" }

\* C38 as stated: from Land, Punch, PunchCombo, Kick, KickCombo or
\* PunchKickCombo the player eventually reaches Idle, whatever the keys, the
\* game over by the timer or not.  (A lethal contact in the middle of a Punch
\* puts the player in Defeat, whose update() reports no transition and whose
\* input is frozen by game_over: with R never pressed the state is Defeat in
\* every later frame.)
C38_LockingEnds == (state \in EndingStates) ~> (state = "Idle")

\* C38  Locking states are never permanent except Defeat: with every system
\* run in every frame and the animation frames advancing, whatever the keys,
\* a player in Land, Punch, PunchCombo, Kick, KickCombo or PunchKickCombo
\* eventually is in Idle, also while game_over is set by the game timer,
\* unless a lethal hit puts the player in Defeat first; until then the state
\* is left only for the queued combo of the chain or for Idle.
C38_LockingEndsUnlessDefeated ==
    /\ (state \in EndingStates) ~> (state = "Idle" \/ state = "Defeat")
    /\ [][ (state \in EndingStates /\ state' # state /\ pc # "player_defeat")
            => \/ state' = "Idle"
               \/ ( /\ pc = "state_update"
                    /\ state' = combo_window.queued_combo
                    /\ state = QueuedFrom(state') ) ]_vars

\* the game timer ran out in the middle of a Punch, and the Punch has ended
\* in Idle all the same
C38_Witness ==
    /\ pc = "tick"
    /\ state = "Idle"
    /\ combo_window.last_attack = "Punch"
    /\ game_state.game_over
    /\ health > 0
    /\ hist.since_jump # "Reset"

\* C39  Game over removes player control: in a player_physics_system step
\* taken while game_over is set, whatever keys are held and whatever state
\* the player is in (Walk, Run, Jump and Fall included, when the game timer
\* has run out), the player's horizontal position and facing direction stay
\* as they are.
C39_NoControlAfterGameOver ==
    [][ (pc = "physics" /\ game_state.game_over) =>
          ( /\ transform'.x = transform.x
            /\ transform'.direction = transform.direction ) ]_vars

\* C40  Enemy bookkeeping.  No enemy is named by more than one
\* EnemyDefeatedEvent, ever; every event raised names a live enemy; the
\* defeat handler takes the k events of the tick with k <= n_enemies (no
\* underflow of the unsigned counter), adds 10 k to score, takes k from
\* n_enemies and queues the despawn of each enemy, which the next
\* synchronisation point carries out; in every state
\* 0 <= n_enemies <= MAX_ENEMIES, and at every tick boundary with game_over
\* not set n_enemies is the number of live enemies.
C40_EnemyBookkeeping ==
    /\ [](/\ game_state.n_enemies >= 0
          /\ game_state.n_enemies <= MAX_ENEMIES
          /\ Cardinality(Elements(hist.defeated)) = Len(hist.defeated)
          /\ (pc = "tick" /\ ~game_state.game_over)
               => (game_state.n_enemies = Cardinality(Alive))
          /\ \A i \in 1 .. Len(messages.enemy_defeated) :
               Exists(enemies, messages.enemy_defeated[i]))
    /\ [][ /\ (pc = "enemy_defeat") =>
                (LET k == Len(messages.enemy_defeated)
                 IN /\ k <= game_state.n_enemies
                    /\ game_state'.n_enemies = game_state.n_enemies - k
                    /\ game_state'.score = game_state.score + 10 * k
                    /\ messages'.enemy_defeated = << >>
                    /\ \A i \in 1 .. k :
                         Cmd("despawn", messages.enemy_defeated[i], 0, 0)
                           \in Elements(NewCommands))
           /\ (pc \in SyncPoints) =>
                (\A s \in Alive :
                    QueuedRemoval("despawn", EntityId(s)) => ~enemies'[s].alive)
           /\ (pc # "enemy_defeat" /\ pc # "restart") =>
                ( /\ game_state'.score = game_state.score
                  /\ game_state'.n_enemies >= game_state.n_enemies )
         ]_vars

\* an enemy has been defeated in this tick: its one event handled, 10 points
\* scored, the enemy gone at the synchronisation point, and n_enemies the
\* number of enemies left
C40_Witness ==
    /\ pc = "player_defeat"
    /\ Len(hist.defeated) = 1
    /\ ~Exists(enemies, hist.defeated[1])
    /\ game_state.score = 10
    /\ ~game_state.game_over
    /\ game_state.n_enemies = Cardinality(Alive)
    /\ hist.swing # << >>
=============================================================================
